---- MODULE Spec2Model ----
(***************************************************************************)
(* Configuration validator of ReactiveAvoidanceRL                          *)
(* (src/src/utils/yaml_parser/helpers.py, configuration.py and the         *)
(* geometry value types under src/src/utils/environment/).                 *)
(*                                                                         *)
(* The specifications share the variables below; each one drives one      *)
(* entry point of the code over a bounded family of inputs:                *)
(*   SpecBFS       minimum_moves_to_reach_goal, one action per loop turn   *)
(*   SpecBFSFair   the same, with the loop running on                      *)
(*   SpecTime      calculate_minimum_time_steps_to_reach_goal              *)
(*   SpecValidate  validate_system_configuration                           *)
(*   SpecFromDict  SystemConfiguration.from_dict, one action per stage     *)
(*   SpecParse     SystemConfiguration.parse_config_file, one action per   *)
(*                 statement, from_dict included                           *)
(***************************************************************************)
EXTENDS Integers, Sequences, FiniteSets, TLC

(***************************************************************************)
(* Bounds of the input families.                                           *)
(***************************************************************************)
\* widest grid of SpecBFS; x components range over 0..MaxWidth-1
MaxWidth == 3
\* tallest grid of SpecBFS; y components range over 0..MaxHeight-1
MaxHeight == 3
\* longest obstacle list of SpecBFS
MaxObstacles == 3
\* largest move count of SpecTime
MaxMoves == 12
\* velocities of SpecTime range over -MaxVelocity..MaxVelocity
MaxVelocity == 4
\* widest and tallest grid of SpecValidate; its coordinates range over
\* 0..CfgMaxWidth-1 and 0..CfgMaxHeight-1
CfgMaxWidth == 3
CfgMaxHeight == 2
\* longest obstacle list and longest seeker list of SpecValidate
CfgMaxObstacles == 2
CfgMaxSeekers == 2
\* largest agent velocity, episode time limit and visibility radius of SpecValidate
CfgMaxVelocity == 2
CfgMaxTimeLimit == 2
CfgMaxRadius == 3
\* SpecValidate's second family, long grids with few obstacles: widest grid,
\* longest obstacle list, largest agent velocity and episode time limit
LongMaxWidth == 5
LongMaxObstacles == 1
LongMaxVelocity == 3
LongMaxTimeLimit == 4

\* enclosure family of validate_system_configuration
EncMaxWidth == 3
EncMaxHeight == 3
\* SpecFromDict: the grids are at most FdMaxDimension wide and tall, the valid
\* coordinate components range over 0..FdMaxDimension-1; longest obstacle list
FdMaxDimension == 2
FdMaxObstacles == 1
\* the mappings whose lists have several entries: the grid, the list lengths
\* and the seeker velocities
LstMaxWidth == 3
LstMaxHeight == 2
LstMaxLength == 2
LstMaxVelocity == 2

(***************************************************************************)
(* Python values.                                                          *)
(***************************************************************************)
\* Optional[int]: None, or an int
None == [is_none |-> TRUE, value |-> 0]

Some(n) == [is_none |-> FALSE, value |-> n]

\* the value of the variables a specification does not use
Idle == "idle"

\* no object: what the caller of from_dict holds until from_dict returns
NoObject == [absent |-> TRUE]

\* a check not made yet, and a check made with its answer
NotChecked == [checked |-> FALSE, answer |-> FALSE]

Checked(answer) == [checked |-> TRUE, answer |-> answer]

Abs(n) == IF n < 0 THEN -n ELSE n

Max(a, b) == IF a >= b THEN a ELSE b

\* Python: c in list
InList(c, list) == \E i \in 1..Len(list) : list[i] = c

\* Python: set(list)
SetOf(list) == {list[i] : i \in 1..Len(list)}

(***************************************************************************)
(* Geometry primitives.                                                    *)
(***************************************************************************)
Coordinates(x, y) == [x |-> x, y |-> y]

GridDimensions(width, height) == [width |-> width, height |-> height]

\* a containment test that lets the row and the column past the edge in
contains_coordinates_inclusive(grid_dimensions, coordinates) ==
    /\ 0 <= coordinates.x
    /\ coordinates.x <= grid_dimensions.width
    /\ 0 <= coordinates.y
    /\ coordinates.y <= grid_dimensions.height

contains_coordinates(grid_dimensions, coordinates) ==
    /\ 0 <= coordinates.x
    /\ coordinates.x < grid_dimensions.width
    /\ 0 <= coordinates.y
    /\ coordinates.y < grid_dimensions.height

\* a search that moves along the axes only
DIRECTIONS_cardinal == << <<0, 1>>, <<1, 0>>, <<0, -1>>, <<-1, 0>> >>

\* a direction list that lost its first diagonal
DIRECTIONS_seven ==
    << <<0, 1>>, <<1, 0>>, <<0, -1>>, <<-1, 0>>, <<1, -1>>, <<-1, -1>>, <<-1, 1>> >>

\* variant: a ninth direction that leaps two cells along x
DIRECTIONS_leap ==
    << <<0, 1>>, <<1, 0>>, <<0, -1>>, <<-1, 0>>,
       <<1, 1>>, <<1, -1>>, <<-1, 1>>, <<-1, -1>>, <<2, 0>> >>

DIRECTIONS ==
    << <<0, 1>>, <<1, 0>>, <<0, -1>>, <<-1, 0>>,
       <<1, 1>>, <<1, -1>>, <<-1, -1>>, <<-1, 1>> >>

(***************************************************************************)
(* minimum_moves_to_reach_goal: the body of the while loop.                *)
(* ExpandNode runs the for loop over DIRECTIONS from index i on, for the   *)
(* node dequeued with `moves`; it yields whether the function returned     *)
(* inside the loop, the value returned, and the visited set and the queue  *)
(* as the loop leaves them.                                                *)
(***************************************************************************)
\* variant: a neighbour is enqueued without being marked visited
RECURSIVE ExpandNode_unmarked(_, _, _, _, _, _, _, _)
ExpandNode_unmarked(grid_dimensions, goal_coordinates, obstacles_coordinates, current_coordinates, moves, i, vis, q) ==
    IF i > Len(DIRECTIONS)
    THEN [returned |-> FALSE, value |-> None, visited |-> vis, queue |-> q]
    ELSE LET next_coordinates ==
                 Coordinates(current_coordinates.x + DIRECTIONS[i][1],
                             current_coordinates.y + DIRECTIONS[i][2])
         IN  IF \/ ~contains_coordinates(grid_dimensions, next_coordinates)
                \/ InList(next_coordinates, obstacles_coordinates)
                \/ next_coordinates \in vis
             THEN ExpandNode_unmarked(grid_dimensions, goal_coordinates,
                                      obstacles_coordinates, current_coordinates,
                                      moves, i + 1, vis, q)
             ELSE IF next_coordinates = goal_coordinates
             THEN [returned |-> TRUE, value |-> Some(moves + 1),
                   visited |-> vis, queue |-> q]
             ELSE ExpandNode_unmarked(grid_dimensions, goal_coordinates,
                                      obstacles_coordinates, current_coordinates,
                                      moves, i + 1, vis,
                                      Append(q, <<next_coordinates, moves + 1>>))

\* variant: a diagonal move is refused when both cells orthogonally adjacent
\* to it are obstacles
RECURSIVE ExpandNode_no_corner_cutting(_, _, _, _, _, _, _, _)
ExpandNode_no_corner_cutting(grid_dimensions, goal_coordinates, obstacles_coordinates, current_coordinates, moves, i, vis, q) ==
    IF i > Len(DIRECTIONS)
    THEN [returned |-> FALSE, value |-> None, visited |-> vis, queue |-> q]
    ELSE LET next_coordinates ==
                 Coordinates(current_coordinates.x + DIRECTIONS[i][1],
                             current_coordinates.y + DIRECTIONS[i][2])
             corner_cut ==
                 /\ DIRECTIONS[i][1] # 0
                 /\ DIRECTIONS[i][2] # 0
                 /\ InList(Coordinates(next_coordinates.x, current_coordinates.y),
                           obstacles_coordinates)
                 /\ InList(Coordinates(current_coordinates.x, next_coordinates.y),
                           obstacles_coordinates)
         IN  IF \/ ~contains_coordinates(grid_dimensions, next_coordinates)
                \/ InList(next_coordinates, obstacles_coordinates)
                \/ next_coordinates \in vis
                \/ corner_cut
             THEN ExpandNode_no_corner_cutting(grid_dimensions, goal_coordinates,
                                               obstacles_coordinates,
                                               current_coordinates, moves, i + 1, vis, q)
             ELSE IF next_coordinates = goal_coordinates
             THEN [returned |-> TRUE, value |-> Some(moves + 1),
                   visited |-> vis, queue |-> q]
             ELSE ExpandNode_no_corner_cutting(grid_dimensions, goal_coordinates,
                                               obstacles_coordinates,
                                               current_coordinates, moves, i + 1,
                                               vis \cup {next_coordinates},
                                               Append(q, <<next_coordinates, moves + 1>>))

RECURSIVE ExpandNode(_, _, _, _, _, _, _, _)
ExpandNode(grid_dimensions, goal_coordinates, obstacles_coordinates, current_coordinates, moves, i, vis, q) ==
    IF i > Len(DIRECTIONS)
    THEN [returned |-> FALSE, value |-> None, visited |-> vis, queue |-> q]
    ELSE LET next_coordinates ==
                 Coordinates(current_coordinates.x + DIRECTIONS[i][1],
                             current_coordinates.y + DIRECTIONS[i][2])
         IN  IF \/ ~contains_coordinates(grid_dimensions, next_coordinates)
                \/ InList(next_coordinates, obstacles_coordinates)
             THEN ExpandNode(grid_dimensions, goal_coordinates, obstacles_coordinates,
                             current_coordinates, moves, i + 1, vis, q)
             ELSE IF next_coordinates \in vis
             THEN ExpandNode(grid_dimensions, goal_coordinates, obstacles_coordinates,
                             current_coordinates, moves, i + 1, vis, q)
             ELSE IF next_coordinates = goal_coordinates
             THEN [returned |-> TRUE, value |-> Some(moves + 1),
                   visited |-> vis, queue |-> q]
             ELSE ExpandNode(grid_dimensions, goal_coordinates, obstacles_coordinates,
                             current_coordinates, moves, i + 1,
                             vis \cup {next_coordinates},
                             Append(q, <<next_coordinates, moves + 1>>))

\* the while loop, run to its end
RECURSIVE SearchLoop(_, _, _, _, _)
SearchLoop(grid_dimensions, goal_coordinates, obstacles_coordinates, q, vis) ==
    IF q = <<>>
    THEN None
    ELSE LET r == ExpandNode(grid_dimensions, goal_coordinates, obstacles_coordinates,
                             Head(q)[1], Head(q)[2], 1, vis, Tail(q))
         IN  IF r.returned
             THEN r.value
             ELSE SearchLoop(grid_dimensions, goal_coordinates, obstacles_coordinates,
                             r.queue, r.visited)

minimum_moves_to_reach_goal(grid_dimensions, start_coordinates, goal_coordinates, obstacles_coordinates) ==
    IF InList(goal_coordinates, obstacles_coordinates)
    THEN None
    ELSE IF start_coordinates = goal_coordinates
    THEN Some(0)
    ELSE SearchLoop(grid_dimensions, goal_coordinates, obstacles_coordinates,
                    << <<start_coordinates, 0>> >>, {start_coordinates})

(***************************************************************************)
(* calculate_minimum_time_steps_to_reach_goal.                             *)
(* minimum_moves / velocity is Python's true division of two ints: the     *)
(* double nearest to the exact quotient, ties to the even mantissa; ceil   *)
(* rounds that double up to an int.  A Python int has no largest value, so *)
(* a move count is written in two limbs, <<hi, lo>> for hi * LimbBase + lo,*)
(* which covers the counts below 2^54; velocities stay below 16.           *)
(***************************************************************************)
LimbBase == 2^27

\* bits of the mantissa of a double
MantissaBits == 53

LongOf(n) == <<n \div LimbBase, n % LimbBase>>

\* the value of a count that fits one machine word of the model checker
IntOf(a) == a[1] * LimbBase + a[2]

\* quotient and remainder of a count by a small positive int
LongDiv(a, d) == <<a[1] \div d, ((a[1] % d) * LimbBase + a[2]) \div d>>

LongMod(a, d) == ((a[1] % d) * LimbBase + a[2]) % d

LongSucc(a) == IF a[2] + 1 = LimbBase THEN <<a[1] + 1, 0>> ELSE <<a[1], a[2] + 1>>

LongTimes(a, d) == <<a[1] * d + ((a[2] * d) \div LimbBase), (a[2] * d) % LimbBase>>

LongIsOdd(a) == a[2] % 2 = 1

RECURSIVE int_bit_length(_)
int_bit_length(n) == IF n = 0 THEN 0 ELSE 1 + int_bit_length(n \div 2)

\* int.bit_length()
bit_length(a) ==
    IF a[1] > 0
    THEN (int_bit_length(LimbBase) - 1) + int_bit_length(a[1])
    ELSE int_bit_length(a[2])

\* n / d for ints n >= 0 and d >= 1: the double nearest to the quotient, as
\* its integer part and whether it has a fractional part.  With q the
\* integer quotient, r the remainder and L the bit length of q, a double
\* keeps MantissaBits - L fractional bits of q + r / d when L <= MantissaBits
\* and drops the lowest bit of q when L = MantissaBits + 1.
true_divide(n, d) ==
    LET q == LongDiv(n, d)
        r == LongMod(n, d)
        L == bit_length(q)
        k == MantissaBits - L
        \* 2^(k + 1), the half steps in one unit; capped above every r and d
        p == 2^(IF k + 1 > 26 THEN 26 ELSE k + 1)
        h == LongDiv(q, 2)
        num == (IF LongIsOdd(q) THEN d ELSE 0) + r
    IN  IF L <= MantissaBits
        THEN IF r * p < d \/ (r * p = d /\ (k >= 1 \/ ~LongIsOdd(q)))
             THEN [whole |-> q, fraction |-> FALSE]
             ELSE IF (d - r) * p < d \/ ((d - r) * p = d /\ (k >= 1 \/ LongIsOdd(q)))
             THEN [whole |-> LongSucc(q), fraction |-> FALSE]
             ELSE [whole |-> q, fraction |-> TRUE]
        ELSE IF num < d \/ (num = d /\ ~LongIsOdd(h))
             THEN [whole |-> LongTimes(h, 2), fraction |-> FALSE]
             ELSE [whole |-> LongTimes(LongSucc(h), 2), fraction |-> FALSE]

\* math.ceil of a double that is not negative
ceil(x) == IF x.fraction THEN LongSucc(x.whole) ELSE x.whole

\* a guard that rejects a zero velocity only and divides by the magnitude of
\* a negative one
calculate_minimum_time_steps_zero_guard(minimum_moves, velocity) ==
    IF velocity = 0
    THEN [raised |-> TRUE, value |-> LongOf(0)]
    ELSE [raised |-> FALSE,
          value |-> ceil(true_divide(minimum_moves, Abs(velocity)))]

\* the result is [raised |-> TRUE] for the ValueError, else the int returned
calculate_minimum_time_steps_to_reach_goal(minimum_moves, velocity) ==
    IF velocity <= 0
    THEN [raised |-> TRUE, value |-> LongOf(0)]
    ELSE [raised |-> FALSE, value |-> ceil(true_divide(minimum_moves, velocity))]

\* a budget test that needs one spare time step
is_episode_time_limit_sufficient_strict(episode_time_limit, minimum_time_steps) ==
    episode_time_limit > minimum_time_steps

is_episode_time_limit_sufficient(episode_time_limit, minimum_time_steps) ==
    episode_time_limit >= minimum_time_steps

(***************************************************************************)
(* The cross-field predicates of helpers.py.                               *)
(***************************************************************************)
\* a uniqueness test whose comparison can never fail
are_obstacles_unique_lax(obstacles_cordinates) ==
    Cardinality(SetOf(obstacles_cordinates)) <= Len(obstacles_cordinates)

are_obstacles_unique(obstacles_cordinates) ==
    Cardinality(SetOf(obstacles_cordinates)) = Len(obstacles_cordinates)

are_obstacles_in_grid(obstacles_coordinates, grid_dimensions) ==
    ~(\E i \in 1..Len(obstacles_coordinates) :
         ~contains_coordinates(grid_dimensions, obstacles_coordinates[i]))

does_agent_start_in_grid(start_coordinates, grid_dimensions) ==
    contains_coordinates(grid_dimensions, start_coordinates)

is_agent_goal_in_grid(goal_coordinates, grid_dimensions) ==
    contains_coordinates(grid_dimensions, goal_coordinates)

are_seekers_unique(seekers_start_coordinates) ==
    Cardinality(SetOf(seekers_start_coordinates)) = Len(seekers_start_coordinates)

do_seekers_start_in_grid(seekers_start_coordinates, grid_dimensions) ==
    ~(\E i \in 1..Len(seekers_start_coordinates) :
         ~contains_coordinates(grid_dimensions, seekers_start_coordinates[i]))

\* variant: only the heads of the two lists are compared
intersects_heads(first_coordinates_list, second_coordinates_list) ==
    /\ Len(first_coordinates_list) > 0
    /\ Len(second_coordinates_list) > 0
    /\ first_coordinates_list[1] = second_coordinates_list[1]

intersects(first_coordinates_list, second_coordinates_list) ==
    ~(SetOf(first_coordinates_list) \cap SetOf(second_coordinates_list) = {})

\* variant: the radius is held to the smaller dimension
is_visibility_radius_within_smaller_dimension(visibility_radius, grid_dimensions) ==
    /\ visibility_radius <= grid_dimensions.width
    /\ visibility_radius <= grid_dimensions.height

is_visibility_radius_within_grid_dimensions(visibility_radius, grid_dimensions) ==
    visibility_radius <= Max(grid_dimensions.width, grid_dimensions.height)

(***************************************************************************)
(* validate_system_configuration.  The result is "ok" when the function    *)
(* returns, else the name of the check whose ValueError it raised.         *)
(***************************************************************************)
validate_system_configuration(system_configuration) ==
    LET grid_dimensions == system_configuration.environment.grid_dimensions
        obstacles == system_configuration.environment.obstacles_coordinates
        agent == system_configuration.agent
        seekers_start_coordinates ==
            [i \in 1..Len(system_configuration.seekers) |->
                system_configuration.seekers[i].start_coordinates]
        minimum_moves ==
            minimum_moves_to_reach_goal(grid_dimensions, agent.start_coordinates,
                                        agent.goal_coordinates, obstacles)
        minimum_time_steps_to_reach_goal ==
            calculate_minimum_time_steps_to_reach_goal(LongOf(minimum_moves.value),
                                                       agent.velocity)
    IN  IF ~are_obstacles_unique(obstacles)
        THEN "obstacles_not_unique"
        ELSE IF ~are_obstacles_in_grid(obstacles, grid_dimensions)
        THEN "obstacles_not_in_grid"
        ELSE IF ~does_agent_start_in_grid(agent.start_coordinates, grid_dimensions)
        THEN "agent_start_not_in_grid"
        ELSE IF ~is_agent_goal_in_grid(agent.goal_coordinates, grid_dimensions)
        THEN "agent_goal_not_in_grid"
        ELSE IF ~are_seekers_unique(seekers_start_coordinates)
        THEN "seekers_not_unique"
        ELSE IF ~do_seekers_start_in_grid(seekers_start_coordinates, grid_dimensions)
        THEN "seekers_not_in_grid"
        ELSE IF intersects(<<agent.start_coordinates>>, obstacles)
        THEN "agent_start_on_obstacle"
        ELSE IF intersects(<<agent.start_coordinates>>, <<agent.goal_coordinates>>)
        THEN "agent_start_on_agent_goal"
        ELSE IF intersects(<<agent.start_coordinates>>, seekers_start_coordinates)
        THEN "agent_start_on_seeker_start"
        ELSE IF intersects(<<agent.goal_coordinates>>, obstacles)
        THEN "agent_goal_on_obstacle"
        ELSE IF intersects(seekers_start_coordinates, obstacles)
        THEN "seeker_start_on_obstacle"
        ELSE IF minimum_moves.is_none
        THEN "goal_unreachable"
        ELSE IF minimum_time_steps_to_reach_goal.raised
        THEN "velocity_not_positive"
        ELSE IF ~is_episode_time_limit_sufficient(
                    system_configuration.environment.episode_time_limit,
                    IntOf(minimum_time_steps_to_reach_goal.value))
        THEN "time_limit_insufficient"
        ELSE IF ~is_visibility_radius_within_grid_dimensions(
                    agent.visibility_radius, grid_dimensions)
        THEN "visibility_radius_exceeds_grid"
        ELSE "ok"

(***************************************************************************)
(* Parsed YAML data.  A value carries its Python type:                     *)
(*   [type |-> "int", val |-> n]      [type |-> "bool", val |-> 0 or 1]    *)
(*   [type |-> "str"]                 [type |-> "list", items |-> <<..>>]  *)
(*   [type |-> "dict", items |-> f]   with f a function on the keys        *)
(***************************************************************************)
PyInt(n) == [type |-> "int", val |-> n]

PyStr == [type |-> "str"]

PyList(items) == [type |-> "list", items |-> items]

PyDict(items) == [type |-> "dict", items |-> items]

\* True and False, with the value they have as integers; a float; None
PyBool(b) == [type |-> "bool", val |-> IF b THEN 1 ELSE 0]

PyFloat(n) == [type |-> "float", val |-> n]

PyNone == [type |-> "none"]

\* isinstance(data, int); bool is a subclass of int
IsInstanceInt(data) == data.type \in {"int", "bool"}

IsInstanceList(data) == data.type = "list"

IsInstanceDict(data) == data.type = "dict"

(***************************************************************************)
(* The structural validators of helpers.py.                                *)
(***************************************************************************)
\* version == 1, which Python decides by value: True == 1 and 1.0 == 1
is_config_version_valid(version) ==
    version.type \in {"int", "bool", "float"} /\ version.val = 1

is_system_config_shallowly_valid(data) ==
    IF ~IsInstanceDict(data)
    THEN FALSE
    ELSE IF DOMAIN data.items # {"version", "agent", "seekers", "environment"}
    THEN FALSE
    ELSE IF \/ ~IsInstanceInt(data.items["version"])
            \/ ~is_config_version_valid(data.items["version"])
    THEN FALSE
    ELSE TRUE

\* file_path.is_file() and file_path.suffix == ".yaml"
is_yaml_file(file_path) == file_path.is_file /\ file_path.suffix = ".yaml"

is_velocity_valid(velocity) == velocity > 0

is_visibility_radius_valid(visibility_radius) == visibility_radius > 0

is_agent_config_shallowly_valid(data) ==
    IF ~IsInstanceDict(data)
    THEN FALSE
    ELSE IF DOMAIN data.items
              # {"start_coordinates", "goal_coordinates", "velocity", "visibility_radius"}
    THEN FALSE
    ELSE IF \/ ~IsInstanceInt(data.items["velocity"])
            \/ ~is_velocity_valid(data.items["velocity"].val)
    THEN FALSE
    ELSE IF \/ ~IsInstanceInt(data.items["visibility_radius"])
            \/ ~is_visibility_radius_valid(data.items["visibility_radius"].val)
    THEN FALSE
    ELSE TRUE

is_coordinate_component_valid(component) ==
    IsInstanceInt(component) /\ component.val >= 0

is_coordinates_data_valid(data) ==
    IF ~IsInstanceList(data)
    THEN FALSE
    ELSE IF Len(data.items) # 2
    THEN FALSE
    ELSE IF \E k \in 1..Len(data.items) : ~is_coordinate_component_valid(data.items[k])
    THEN FALSE
    ELSE TRUE

is_seeker_config_shallowly_valid(data) ==
    IF ~IsInstanceDict(data)
    THEN FALSE
    ELSE IF DOMAIN data.items # {"start_coordinates", "velocity"}
    THEN FALSE
    ELSE IF \/ ~IsInstanceInt(data.items["velocity"])
            \/ ~is_velocity_valid(data.items["velocity"].val)
    THEN FALSE
    ELSE TRUE

is_seekers_config_shallowly_valid(data) ==
    IF ~IsInstanceList(data)
    THEN FALSE
    ELSE IF data.items = <<>>
    THEN FALSE
    ELSE IF \E k \in 1..Len(data.items) : ~is_seeker_config_shallowly_valid(data.items[k])
    THEN FALSE
    ELSE TRUE

is_episode_time_limit_valid(episode_time_limit) == episode_time_limit > 0

is_dimension_size_valid(dimension_size) ==
    IsInstanceInt(dimension_size) /\ dimension_size.val > 0

is_grid_dimensions_data_valid(data) ==
    IF ~IsInstanceDict(data)
    THEN FALSE
    ELSE IF DOMAIN data.items # {"width", "height"}
    THEN FALSE
    ELSE IF \E k \in DOMAIN data.items : ~is_dimension_size_valid(data.items[k])
    THEN FALSE
    ELSE TRUE

is_obstacles_coordinates_data_valid(data) ==
    IF ~IsInstanceList(data)
    THEN FALSE
    ELSE IF \E k \in 1..Len(data.items) : ~is_coordinates_data_valid(data.items[k])
    THEN FALSE
    ELSE TRUE

is_environment_config_shallowly_valid(data) ==
    IF ~IsInstanceDict(data)
    THEN FALSE
    ELSE IF DOMAIN data.items
              # {"grid_dimensions", "obstacles_coordinates", "episode_time_limit"}
    THEN FALSE
    ELSE IF \/ ~IsInstanceInt(data.items["episode_time_limit"])
            \/ ~is_episode_time_limit_valid(data.items["episode_time_limit"].val)
    THEN FALSE
    ELSE TRUE

(***************************************************************************)
(* The builders of configuration.py.  A builder yields                     *)
(* [raised |-> FALSE, value |-> the object built] or                       *)
(* [raised |-> TRUE, value |-> the ValueError it raised].                  *)
(***************************************************************************)
Built(object) == [raised |-> FALSE, value |-> object]

Raised(error) == [raised |-> TRUE, value |-> error]

\* variant: the two components change places
Coordinates_from_list_swapped(coordinates) ==
    Coordinates(coordinates.items[2].val, coordinates.items[1].val)

Coordinates_from_list(coordinates) ==
    Coordinates(coordinates.items[1].val, coordinates.items[2].val)

GridDimensions_from_tuple(grid_dimensions) ==
    GridDimensions(grid_dimensions[1], grid_dimensions[2])

AgentConfiguration_from_dict(agent_config) ==
    IF ~is_coordinates_data_valid(agent_config.items["start_coordinates"])
    THEN Raised("agent_start_coordinates_invalid")
    ELSE IF ~is_coordinates_data_valid(agent_config.items["goal_coordinates"])
    THEN Raised("agent_goal_coordinates_invalid")
    ELSE Built([start_coordinates |->
                    Coordinates_from_list(agent_config.items["start_coordinates"]),
                goal_coordinates |->
                    Coordinates_from_list(agent_config.items["goal_coordinates"]),
                velocity |-> agent_config.items["velocity"].val,
                visibility_radius |-> agent_config.items["visibility_radius"].val])

SeekerConfiguration_from_dict(seeker_config) ==
    IF ~is_coordinates_data_valid(seeker_config.items["start_coordinates"])
    THEN Raised("seeker_start_coordinates_invalid")
    ELSE Built([start_coordinates |->
                    Coordinates_from_list(seeker_config.items["start_coordinates"]),
                velocity |-> seeker_config.items["velocity"].val])

\* a comprehension that hands the seekers over last first
SeekerConfigurations_from_list_reversed(seekers) ==
    IF \E k \in 1..Len(seekers.items) :
           SeekerConfiguration_from_dict(seekers.items[k]).raised
    THEN Raised("seeker_start_coordinates_invalid")
    ELSE Built([k \in 1..Len(seekers.items) |->
                    SeekerConfiguration_from_dict(
                        seekers.items[Len(seekers.items) + 1 - k]).value])

\* [SeekerConfiguration.from_dict(seeker_config) for seeker_config in seekers]:
\* the first seeker that raises ends the comprehension
SeekerConfigurations_from_list(seekers) ==
    IF \E k \in 1..Len(seekers.items) :
           SeekerConfiguration_from_dict(seekers.items[k]).raised
    THEN Raised("seeker_start_coordinates_invalid")
    ELSE Built([k \in 1..Len(seekers.items) |->
                    SeekerConfiguration_from_dict(seekers.items[k]).value])

\* a builder that hands the obstacles over last first
EnvironmentConfiguration_from_dict_reversed(environment_config) ==
    IF ~is_grid_dimensions_data_valid(environment_config.items["grid_dimensions"])
    THEN Raised("grid_dimensions_invalid")
    ELSE IF ~is_obstacles_coordinates_data_valid(
                 environment_config.items["obstacles_coordinates"])
    THEN Raised("obstacles_coordinates_invalid")
    ELSE LET obstacles == environment_config.items["obstacles_coordinates"].items
         IN  Built([grid_dimensions |->
                        GridDimensions_from_tuple(
                            <<environment_config.items["grid_dimensions"].items["width"].val,
                              environment_config.items["grid_dimensions"].items["height"].val>>),
                    obstacles_coordinates |->
                        [k \in 1..Len(obstacles) |->
                            Coordinates_from_list(obstacles[Len(obstacles) + 1 - k])],
                    episode_time_limit |->
                        environment_config.items["episode_time_limit"].val])

EnvironmentConfiguration_from_dict(environment_config) ==
    IF ~is_grid_dimensions_data_valid(environment_config.items["grid_dimensions"])
    THEN Raised("grid_dimensions_invalid")
    ELSE IF ~is_obstacles_coordinates_data_valid(
                 environment_config.items["obstacles_coordinates"])
    THEN Raised("obstacles_coordinates_invalid")
    ELSE Built([grid_dimensions |->
                    GridDimensions_from_tuple(
                        <<environment_config.items["grid_dimensions"].items["width"].val,
                          environment_config.items["grid_dimensions"].items["height"].val>>),
                obstacles_coordinates |->
                    [k \in 1..Len(environment_config.items["obstacles_coordinates"].items)
                        |-> Coordinates_from_list(
                                environment_config.items["obstacles_coordinates"].items[k])],
                episode_time_limit |->
                    environment_config.items["episode_time_limit"].val])

(***************************************************************************)
(* State.                                                                  *)
(***************************************************************************)
\* the value the f-string of a raise statement of validate_system_configuration
\* formats into its message
validate_system_configuration_echo(system_configuration, outcome) ==
    LET environment == system_configuration.environment
        agent == system_configuration.agent
        seekers_start_coordinates ==
            [i \in 1..Len(system_configuration.seekers) |->
                system_configuration.seekers[i].start_coordinates]
    IN  CASE outcome \in {"obstacles_not_unique", "obstacles_not_in_grid", "goal_unreachable"}
                -> [obstacles_coordinates |-> environment.obstacles_coordinates]
          [] outcome \in {"agent_start_not_in_grid", "agent_start_on_obstacle",
                          "agent_start_on_agent_goal", "agent_start_on_seeker_start"}
                -> [start_coordinates |-> agent.start_coordinates]
          [] outcome \in {"agent_goal_not_in_grid", "agent_goal_on_obstacle"}
                -> [goal_coordinates |-> agent.goal_coordinates]
          [] outcome \in {"seekers_not_unique", "seekers_not_in_grid",
                          "seeker_start_on_obstacle"}
                -> [seekers_start_coordinates |-> seekers_start_coordinates]
          [] outcome = "time_limit_insufficient"
                -> [episode_time_limit |-> environment.episode_time_limit]
          [] outcome = "visibility_radius_exceeds_grid"
                -> [visibility_radius |-> agent.visibility_radius]
          [] OTHER -> [nothing |-> TRUE]

\* the seeker_config the comprehension stops at: the first whose builder raises
first_raising_seeker_config(seekers) ==
    LET k == CHOOSE k \in 1..Len(seekers.items) :
                 /\ SeekerConfiguration_from_dict(seekers.items[k]).raised
                 /\ \A j \in 1..(k - 1) :
                        ~SeekerConfiguration_from_dict(seekers.items[j]).raised
    IN  seekers.items[k]

VARIABLES
    bfs_args,     \* the arguments of the call of minimum_moves_to_reach_goal
    bfs_pc,       \* "entry", "loop" (at the while test) or "returned"
    queue,        \* the deque of <<coordinates, moves>>
    visited,      \* the visited set
    dequeues,     \* number of popleft calls made so far
    bfs_result,   \* the value returned
    ts_args,      \* the arguments of calculate_minimum_time_steps_to_reach_goal
    ts_pc,        \* "call" or "done"
    ts_result,    \* what the call did: [raised, value]
    val_config,   \* the SystemConfiguration handed to validate_system_configuration
    val_pc,       \* "call" or "done"
    val_outcome,  \* "ok", or the check that raised
    fd_input,     \* the raw mapping handed to SystemConfiguration.from_dict
    fd_pc,        \* the statement from_dict is at, "returned" or "raised"
    fd_trace,     \* the checks, builders and validator run so far, in order
    fd_agent,     \* the AgentConfiguration built
    fd_seekers,   \* the list of SeekerConfiguration built
    fd_environment, \* the EnvironmentConfiguration built
    fd_object,    \* the local system_configuration
    fd_validated, \* what validate_system_configuration answered
    fd_returned,  \* the object handed to the caller
    fd_error,     \* the error raised
    fd_echo,      \* the value the error's message echoes
    parse_file,   \* the file handed to SystemConfiguration.parse_config_file
    parse_pc,     \* the statement parse_config_file is at
    parse_data,   \* what load_yaml_file returned
    parse_shallowly_valid, \* what is_system_config_shallowly_valid returned
    parse_result, \* the object handed to the caller
    parse_error   \* the error raised

bfs_vars == <<bfs_args, bfs_pc, queue, visited, dequeues, bfs_result>>

ts_vars == <<ts_args, ts_pc, ts_result>>

val_vars == <<val_config, val_pc, val_outcome>>

fd_vars ==
    <<fd_input, fd_pc, fd_trace, fd_agent, fd_seekers, fd_environment, fd_object,
      fd_validated, fd_returned, fd_error, fd_echo>>

parse_vars ==
    <<parse_file, parse_pc, parse_data, parse_shallowly_valid, parse_result, parse_error>>

vars == <<bfs_vars, ts_vars, val_vars, fd_vars, parse_vars>>

\* the variables of the entry points a specification does not drive
BFSIdle ==
    /\ bfs_args = Idle /\ bfs_pc = Idle /\ queue = <<>> /\ visited = {}
    /\ dequeues = 0 /\ bfs_result = None

TimeIdle == ts_args = Idle /\ ts_pc = Idle /\ ts_result = Idle

ValidateIdle == val_config = Idle /\ val_pc = Idle /\ val_outcome = Idle

FromDictIdle ==
    /\ fd_input = Idle /\ fd_pc = Idle /\ fd_trace = <<>> /\ fd_agent = Idle
    /\ fd_seekers = Idle /\ fd_environment = Idle /\ fd_object = Idle
    /\ fd_validated = Idle /\ fd_returned = NoObject /\ fd_error = Idle
    /\ fd_echo = Idle

ParseIdle ==
    /\ parse_file = Idle /\ parse_pc = Idle /\ parse_data = Idle
    /\ parse_shallowly_valid = NotChecked /\ parse_result = NoObject
    /\ parse_error = Idle

(***************************************************************************)
(* SpecBFS: minimum_moves_to_reach_goal step by step.                      *)
(***************************************************************************)
\* the coordinates the inputs are drawn from
Cells == {Coordinates(x, y) : x \in 0..(MaxWidth - 1), y \in 0..(MaxHeight - 1)}

Grids == {GridDimensions(w, h) : w \in 1..MaxWidth, h \in 1..MaxHeight}

\* row-major rank of a cell, to list a set of cells in one order
Rank(c) == c.y * MaxWidth + c.x

\* obstacle lists: up to MaxObstacles distinct cells, listed in row-major order
ObstacleLists ==
    {l \in UNION {[1..n -> Cells] : n \in 0..MaxObstacles} :
        \A i \in 1..(Len(l) - 1) : Rank(l[i]) < Rank(l[i + 1])}

InitBFS ==
    /\ bfs_args \in [grid_dimensions : Grids, start_coordinates : Cells,
                     goal_coordinates : Cells, obstacles_coordinates : ObstacleLists]
    /\ bfs_pc = "entry"
    /\ queue = <<>>
    /\ visited = {}
    /\ dequeues = 0
    /\ bfs_result = None
    /\ TimeIdle
    /\ ValidateIdle
    /\ FromDictIdle
    /\ ParseIdle

\* the entry with its two early returns in the other order
bfs_Entry_start_first ==
    /\ bfs_pc = "entry"
    /\ IF bfs_args.start_coordinates = bfs_args.goal_coordinates
       THEN /\ bfs_pc' = "returned"
            /\ bfs_result' = Some(0)
            /\ UNCHANGED <<queue, visited>>
       ELSE IF InList(bfs_args.goal_coordinates, bfs_args.obstacles_coordinates)
       THEN /\ bfs_pc' = "returned"
            /\ bfs_result' = None
            /\ UNCHANGED <<queue, visited>>
       ELSE /\ bfs_pc' = "loop"
            /\ queue' = << <<bfs_args.start_coordinates, 0>> >>
            /\ visited' = {bfs_args.start_coordinates}
            /\ UNCHANGED bfs_result
    /\ UNCHANGED <<bfs_args, dequeues, ts_vars, val_vars, fd_vars, parse_vars>>

\* the entry without the goal check of the start coordinates
bfs_Entry_no_start_check ==
    /\ bfs_pc = "entry"
    /\ IF InList(bfs_args.goal_coordinates, bfs_args.obstacles_coordinates)
       THEN /\ bfs_pc' = "returned"
            /\ bfs_result' = None
            /\ UNCHANGED <<queue, visited>>
       ELSE /\ bfs_pc' = "loop"
            /\ queue' = << <<bfs_args.start_coordinates, 0>> >>
            /\ visited' = {bfs_args.start_coordinates}
            /\ UNCHANGED bfs_result
    /\ UNCHANGED <<bfs_args, dequeues, ts_vars, val_vars, fd_vars, parse_vars>>

\* lines 350-358: the two early returns, then queue and visited are set up
bfs_Entry ==
    /\ bfs_pc = "entry"
    /\ IF InList(bfs_args.goal_coordinates, bfs_args.obstacles_coordinates)
       THEN /\ bfs_pc' = "returned"
            /\ bfs_result' = None
            /\ UNCHANGED <<queue, visited>>
       ELSE IF bfs_args.start_coordinates = bfs_args.goal_coordinates
       THEN /\ bfs_pc' = "returned"
            /\ bfs_result' = Some(0)
            /\ UNCHANGED <<queue, visited>>
       ELSE /\ bfs_pc' = "loop"
            /\ queue' = << <<bfs_args.start_coordinates, 0>> >>
            /\ visited' = {bfs_args.start_coordinates}
            /\ UNCHANGED bfs_result
    /\ UNCHANGED <<bfs_args, dequeues, ts_vars, val_vars, fd_vars, parse_vars>>

\* lines 359-376: one turn of the while loop
bfs_Iterate ==
    /\ bfs_pc = "loop"
    /\ queue # <<>>
    /\ LET r == ExpandNode(bfs_args.grid_dimensions, bfs_args.goal_coordinates,
                           bfs_args.obstacles_coordinates,
                           Head(queue)[1], Head(queue)[2], 1, visited, Tail(queue))
       IN  /\ queue' = r.queue
           /\ visited' = r.visited
           /\ dequeues' = dequeues + 1
           /\ IF r.returned
              THEN bfs_pc' = "returned" /\ bfs_result' = r.value
              ELSE bfs_pc' = "loop" /\ UNCHANGED bfs_result
    /\ UNCHANGED <<bfs_args, ts_vars, val_vars, fd_vars, parse_vars>>

\* line 377: the queue is empty
bfs_Exhausted ==
    /\ bfs_pc = "loop"
    /\ queue = <<>>
    /\ bfs_pc' = "returned"
    /\ bfs_result' = None
    /\ UNCHANGED <<bfs_args, queue, visited, dequeues, ts_vars, val_vars, fd_vars, parse_vars>>

NextBFS == bfs_Entry \/ bfs_Iterate \/ bfs_Exhausted

SpecBFS == InitBFS /\ [][NextBFS]_vars

\* the function runs on one thread that keeps executing: a step that can be
\* taken is taken
SpecBFSFair == SpecBFS /\ WF_vars(NextBFS)

(***************************************************************************)
(* What the search is meant to compute, stated without the queue: the      *)
(* cells a sequence of at most k moves can reach, each move changing x and *)
(* y by at most one and landing on a cell of the grid that is no obstacle. *)
(***************************************************************************)
Adjacent(a, b) == a # b /\ Abs(a.x - b.x) <= 1 /\ Abs(a.y - b.y) <= 1

OpenCells(grid, obstacles) ==
    {c \in {Coordinates(x, y) : x \in 0..(grid.width - 1), y \in 0..(grid.height - 1)} :
        \A i \in 1..Len(obstacles) : obstacles[i] # c}

\* one more move from the cells of R
OneMoreMove(open, R) == R \cup {c \in open : \E p \in R : Adjacent(p, c)}

RECURSIVE ReachWithinFrom(_, _, _)
ReachWithinFrom(open, R, k) ==
    IF k = 0 THEN R ELSE ReachWithinFrom(open, OneMoreMove(open, R), k - 1)

\* the cells reached from start by at most k moves
ReachWithin(grid, obstacles, start, k) ==
    ReachWithinFrom(OpenCells(grid, obstacles), {start}, k)

\* the least k with goal among the cells reached by at most k moves, counted
\* up from the cells R reached by at most k moves; None when the reached cells
\* stop growing without the goal
RECURSIVE LeastMovesFrom(_, _, _, _)
LeastMovesFrom(open, R, goal, k) ==
    IF goal \in R
    THEN Some(k)
    ELSE IF OneMoreMove(open, R) = R
    THEN None
    ELSE LeastMovesFrom(open, OneMoreMove(open, R), goal, k + 1)

ShortestLength(grid, obstacles, start, goal) ==
    LeastMovesFrom(OpenCells(grid, obstacles), {start}, goal, 0)

ChebyshevDistance(a, b) == Max(Abs(a.x - b.x), Abs(a.y - b.y))

BFSReturned == bfs_pc = "returned"

StartIsOpen ==
    /\ contains_coordinates(bfs_args.grid_dimensions, bfs_args.start_coordinates)
    /\ ~InList(bfs_args.start_coordinates, bfs_args.obstacles_coordinates)

\* the stepwise search and the operator used by the validator agree
BFSAgreesWithOperator ==
    BFSReturned =>
        bfs_result = minimum_moves_to_reach_goal(bfs_args.grid_dimensions,
                         bfs_args.start_coordinates, bfs_args.goal_coordinates,
                         bfs_args.obstacles_coordinates)

\* C2: from an in-grid start that is no obstacle, the search returns the
\* length of a shortest sequence of 8-directional moves to the goal that stays
\* in the grid and off the obstacles, and None exactly when there is none.
C2_ShortestPath ==
    (BFSReturned /\ StartIsOpen) =>
        bfs_result = ShortestLength(bfs_args.grid_dimensions,
                                    bfs_args.obstacles_coordinates,
                                    bfs_args.start_coordinates,
                                    bfs_args.goal_coordinates)

\* a search that went around obstacles: the length returned exceeds the
\* distance over an empty grid, after several nodes were expanded
C2_Witness ==
    /\ BFSReturned /\ StartIsOpen
    /\ ~bfs_result.is_none
    /\ bfs_result.value > ChebyshevDistance(bfs_args.start_coordinates,
                                            bfs_args.goal_coordinates)
    /\ dequeues >= 3

\* C5: with no obstacles and start and goal in the grid, the search returns
\* the Chebyshev distance max(|dx|, |dy|).
C5_Chebyshev ==
    (/\ BFSReturned
     /\ bfs_args.obstacles_coordinates = <<>>
     /\ contains_coordinates(bfs_args.grid_dimensions, bfs_args.start_coordinates)
     /\ contains_coordinates(bfs_args.grid_dimensions, bfs_args.goal_coordinates))
    => bfs_result = Some(ChebyshevDistance(bfs_args.start_coordinates,
                                           bfs_args.goal_coordinates))

C5_Witness ==
    /\ BFSReturned
    /\ bfs_args.obstacles_coordinates = <<>>
    /\ contains_coordinates(bfs_args.grid_dimensions, bfs_args.start_coordinates)
    /\ contains_coordinates(bfs_args.grid_dimensions, bfs_args.goal_coordinates)
    /\ Abs(bfs_args.start_coordinates.x - bfs_args.goal_coordinates.x) = 1
    /\ Abs(bfs_args.start_coordinates.y - bfs_args.goal_coordinates.y) = 2
    /\ bfs_result = Some(2)

\* C6 as stated: whenever start equals goal the result is 0 and nothing was
\* searched, whatever the obstacle list.
C6_Original ==
    (BFSReturned /\ bfs_args.start_coordinates = bfs_args.goal_coordinates)
    => (bfs_result = Some(0) /\ dequeues = 0 /\ queue = <<>> /\ visited = {})

\* C6 amended: when start equals goal and that cell is not in the obstacle
\* list, the result is 0 and no node was enqueued or dequeued.
C6_ZeroWhenStartIsGoal ==
    (/\ BFSReturned
     /\ bfs_args.start_coordinates = bfs_args.goal_coordinates
     /\ ~InList(bfs_args.goal_coordinates, bfs_args.obstacles_coordinates))
    => (bfs_result = Some(0) /\ dequeues = 0 /\ queue = <<>> /\ visited = {})

C6_Witness ==
    /\ BFSReturned
    /\ bfs_args.start_coordinates = bfs_args.goal_coordinates
    /\ bfs_args.obstacles_coordinates # <<>>
    /\ ~InList(bfs_args.goal_coordinates, bfs_args.obstacles_coordinates)
    /\ bfs_result = Some(0)

\* C7: when the goal is in the obstacle list the result is None, for every
\* grid and every start.
C7_GoalOnObstacle ==
    (BFSReturned /\ InList(bfs_args.goal_coordinates, bfs_args.obstacles_coordinates))
    => bfs_result = None

\* the goal is an obstacle next to an open in-grid start
C7_Witness ==
    /\ BFSReturned /\ StartIsOpen
    /\ InList(bfs_args.goal_coordinates, bfs_args.obstacles_coordinates)
    /\ Adjacent(bfs_args.start_coordinates, bfs_args.goal_coordinates)
    /\ contains_coordinates(bfs_args.grid_dimensions, bfs_args.goal_coordinates)
    /\ bfs_result = None

InGridBFS(p) ==
    /\ p.x \in 0..(bfs_args.grid_dimensions.width - 1)
    /\ p.y \in 0..(bfs_args.grid_dimensions.height - 1)

QueuedCells == {queue[i][1] : i \in 1..Len(queue)}

\* visited holds the start and every cell ever enqueued, so a cell enqueued
\* twice would make the enqueues outnumber the visited cells
EnqueuedAtMostOnce ==
    /\ \A i, j \in 1..Len(queue) : i # j => queue[i][1] # queue[j][1]
    /\ QueuedCells \subseteq visited
    /\ Cardinality(visited) = dequeues + Len(queue)

EnqueuedCellsAreOpen ==
    \A c \in visited \ {bfs_args.start_coordinates} :
        /\ c.x \in 0..(bfs_args.grid_dimensions.width - 1)
        /\ c.y \in 0..(bfs_args.grid_dimensions.height - 1)
        /\ \A i \in 1..Len(bfs_args.obstacles_coordinates) :
              bfs_args.obstacles_coordinates[i] # c

DequeuesBounded ==
    dequeues <= bfs_args.grid_dimensions.width * bfs_args.grid_dimensions.height + 1

\* C19: the search loop terminates: every cell is marked visited and enqueued
\* at most once, every enqueued cell other than the start is in the grid and
\* no obstacle, the dequeues never outnumber the grid cells plus the start,
\* and the function eventually returns a move count or None.
C19_SearchTerminates ==
    /\ [](EnqueuedAtMostOnce /\ EnqueuedCellsAreOpen /\ DequeuesBounded)
    /\ <>BFSReturned

\* a 3x3 grid searched to exhaustion: a wall of three obstacles cuts the
\* goal off and the three cells on the start's side were each dequeued once
C19_Witness ==
    /\ BFSReturned
    /\ bfs_result = None
    /\ bfs_args.grid_dimensions = GridDimensions(3, 3)
    /\ Len(bfs_args.obstacles_coordinates) = 3
    /\ InGridBFS(bfs_args.goal_coordinates)
    /\ queue = <<>>
    /\ dequeues = 3
    /\ Cardinality(visited) = 3

\* C20: a diagonal move is allowed whenever its destination is in the grid
\* and no obstacle, whatever stands on the two cells orthogonally adjacent to
\* it: a goal diagonally next to the start is reached in one move.
C20_CornerCutting ==
    (/\ BFSReturned
     /\ Abs(bfs_args.goal_coordinates.x - bfs_args.start_coordinates.x) = 1
     /\ Abs(bfs_args.goal_coordinates.y - bfs_args.start_coordinates.y) = 1
     /\ InGridBFS(bfs_args.goal_coordinates)
     /\ \A i \in 1..Len(bfs_args.obstacles_coordinates) :
           bfs_args.obstacles_coordinates[i] # bfs_args.goal_coordinates)
    => bfs_result = Some(1)

\* the 2x2 grid with start (0,0), goal (1,1) and obstacles (1,0) and (0,1)
C20_Witness ==
    /\ BFSReturned
    /\ bfs_args.grid_dimensions = GridDimensions(2, 2)
    /\ bfs_args.start_coordinates = Coordinates(0, 0)
    /\ bfs_args.goal_coordinates = Coordinates(1, 1)
    /\ bfs_args.obstacles_coordinates = <<Coordinates(1, 0), Coordinates(0, 1)>>
    /\ bfs_result = Some(1)

(***************************************************************************)
(* SpecTime: calculate_minimum_time_steps_to_reach_goal on every move      *)
(* count 0..MaxMoves, on the move counts within MaxMoves of a multiple of  *)
(* 2^51 (up to MaxVelocity * 2^51, so on both sides of 2^52 and 2^53), and *)
(* on every velocity -MaxVelocity..MaxVelocity.                            *)
(***************************************************************************)
SmallMoves == {LongOf(m) : m \in 0..MaxMoves}

LargeMoves ==
    {<<j * 2^24, off>> : j \in 1..MaxVelocity, off \in 0..MaxMoves}
    \cup {<<j * 2^24 - 1, LimbBase - off>> : j \in 1..MaxVelocity, off \in 1..MaxMoves}

InitTime ==
    /\ ts_args \in [minimum_moves : SmallMoves \cup LargeMoves,
                    velocity : (-MaxVelocity)..MaxVelocity]
    /\ ts_pc = "call"
    /\ ts_result = Idle
    /\ BFSIdle
    /\ ValidateIdle
    /\ FromDictIdle
    /\ ParseIdle

ts_Call ==
    /\ ts_pc = "call"
    /\ ts_result' = calculate_minimum_time_steps_to_reach_goal(ts_args.minimum_moves,
                                                               ts_args.velocity)
    /\ ts_pc' = "done"
    /\ UNCHANGED <<ts_args, bfs_vars, val_vars, fd_vars, parse_vars>>

NextTime == ts_Call

SpecTime == InitTime /\ [][NextTime]_vars

TimeDone == ts_pc = "done"

\* a <= b and a < b on two-limb counts
LongLeq(a, b) == a[1] < b[1] \/ (a[1] = b[1] /\ a[2] <= b[2])

LongLess(a, b) == a[1] < b[1] \/ (a[1] = b[1] /\ a[2] < b[2])

LongPred(a) == IF a[2] = 0 THEN <<a[1] - 1, LimbBase - 1>> ELSE <<a[1], a[2] - 1>>

\* t is the least integer with t * v >= m: t * v >= m, and t = 0 or
\* (t - 1) * v < m
IsLeastEnough(t, m, v) ==
    /\ LongLeq(m, LongTimes(t, v))
    /\ t # LongOf(0) => LongLess(LongTimes(LongPred(t), v), m)

TwoTo53 == <<2^26, 0>>

\* C8 as stated: for every move count m >= 0 and every velocity v >= 1 the
\* call returns the ceiling of m / v, the least integer t with t * v >= m.
C8_Original ==
    (TimeDone /\ ts_args.velocity >= 1) =>
        /\ ~ts_result.raised
        /\ IsLeastEnough(ts_result.value, ts_args.minimum_moves, ts_args.velocity)

\* where the code does return the ceiling: every move count up to 2^53, at
\* every velocity v >= 1
C8_CeilingUpToTwoTo53 ==
    (TimeDone /\ ts_args.velocity >= 1 /\ LongLeq(ts_args.minimum_moves, TwoTo53)) =>
        /\ ~ts_result.raised
        /\ IsLeastEnough(ts_result.value, ts_args.minimum_moves, ts_args.velocity)

\* moves = 5 at velocity 2 gave 3 time steps
C8_SmallExample ==
    /\ TimeDone
    /\ ts_args.minimum_moves = LongOf(5) /\ ts_args.velocity = 2
    /\ ts_result = [raised |-> FALSE, value |-> LongOf(3)]

\* moves = 2^53 + 1 at velocity 1 gave 2^53 time steps, one too few
C8_TooFewTimeSteps ==
    /\ TimeDone
    /\ ts_args.minimum_moves = <<2^26, 1>> /\ ts_args.velocity = 1
    /\ ts_result = [raised |-> FALSE, value |-> <<2^26, 0>>]

\* C9: for every velocity <= 0 the call raises and returns nothing, whatever
\* the move count.
C9_RaisesOnNonPositiveVelocity ==
    (TimeDone /\ ts_args.velocity <= 0) => ts_result.raised

\* no moves at a negative velocity raised
C9_Witness ==
    /\ TimeDone
    /\ ts_args.minimum_moves = LongOf(0) /\ ts_args.velocity < 0
    /\ ts_result.raised

(***************************************************************************)
(* SpecValidate: validate_system_configuration on assembled                *)
(* SystemConfigurations, as from_dict builds them (non-empty seeker list,  *)
(* positive velocity, time limit and radius, non-negative coordinates).    *)
(* Three families of inputs:                                               *)
(*   dense  every configuration over a CfgMaxWidth x CfgMaxHeight pool of  *)
(*          coordinates, obstacle and seeker lists in any order and with   *)
(*          repetitions: every velocity and time limit at radius 1, every  *)
(*          radius at velocity 1 and the largest time limit;               *)
(*   long   grids wider than that, up to LongMaxWidth, one seeker and few  *)
(*          obstacles, where paths take several time steps;                *)
(*   enclosure  grids up to EncMaxWidth x EncMaxHeight with the agent's    *)
(*          start walled in by obstacles, or walled in but for one cell.   *)
(***************************************************************************)
CfgCells ==
    {Coordinates(x, y) : x \in 0..(CfgMaxWidth - 1), y \in 0..(CfgMaxHeight - 1)}

CfgGrids == {GridDimensions(w, h) : w \in 1..CfgMaxWidth, h \in 1..CfgMaxHeight}

\* validate_system_configuration does not read a seeker's velocity
SeekerConfigurations(cells) == [start_coordinates : cells, velocity : {1}]

DenseConfigurations(velocities, time_limits, radii) ==
    [agent : [start_coordinates : CfgCells, goal_coordinates : CfgCells,
              velocity : velocities, visibility_radius : radii],
     seekers : UNION {[1..n -> SeekerConfigurations(CfgCells)] : n \in 1..CfgMaxSeekers},
     environment : [grid_dimensions : CfgGrids,
                    obstacles_coordinates :
                        UNION {[1..n -> CfgCells] : n \in 0..CfgMaxObstacles},
                    episode_time_limit : time_limits]]

LongCells ==
    {Coordinates(x, y) : x \in 0..(LongMaxWidth - 1), y \in 0..(CfgMaxHeight - 1)}

\* the grids wider than the dense pool
LongGrids ==
    {GridDimensions(w, h) : w \in (CfgMaxWidth + 1)..LongMaxWidth, h \in 1..CfgMaxHeight}

LongConfigurations ==
    [agent : [start_coordinates : LongCells, goal_coordinates : LongCells,
              velocity : 1..LongMaxVelocity, visibility_radius : {1}],
     seekers : [1..1 -> SeekerConfigurations(LongCells)],
     environment : [grid_dimensions : LongGrids,
                    obstacles_coordinates :
                        UNION {[1..n -> LongCells] : n \in 0..LongMaxObstacles},
                    episode_time_limit : 1..LongMaxTimeLimit]]

(***************************************************************************)
(* The enclosure family: grids up to EncMaxWidth x EncMaxHeight whose      *)
(* obstacles are the in-grid neighbours of the agent's start, all of them  *)
(* or all but one, listed in row-major order.                              *)
(***************************************************************************)
EncCells ==
    {Coordinates(x, y) : x \in 0..(EncMaxWidth - 1), y \in 0..(EncMaxHeight - 1)}

EncGrids == {GridDimensions(w, h) : w \in 1..EncMaxWidth, h \in 1..EncMaxHeight}

EncNeighbours(grid, p) ==
    {q \in EncCells : contains_coordinates(grid, q) /\ Adjacent(q, p)}

RECURSIVE CellList(_)
CellList(S) ==
    IF S = {}
    THEN <<>>
    ELSE LET c == CHOOSE c \in S :
                      \A d \in S : c.y * EncMaxWidth + c.x <= d.y * EncMaxWidth + d.x
         IN  <<c>> \o CellList(S \ {c})

EncObstacleSets(grid, p) ==
    {EncNeighbours(grid, p)}
        \cup {EncNeighbours(grid, p) \ {q} : q \in EncNeighbours(grid, p)}

EnclosureConfiguration(grid, start, goal, seeker, obstacles, time_limit) ==
    [agent |-> [start_coordinates |-> start, goal_coordinates |-> goal,
                velocity |-> 1, visibility_radius |-> 1],
     seekers |-> <<seeker>>,
     environment |-> [grid_dimensions |-> grid,
                      obstacles_coordinates |-> CellList(obstacles),
                      episode_time_limit |-> time_limit]]

\* SystemConfiguration.from_dict, line 132: num_seekers = len(seekers)
Assembled(c) ==
    [agent |-> c.agent, seekers |-> c.seekers, environment |-> c.environment,
     num_seekers |-> Len(c.seekers)]

InitValidate ==
    /\ \/ \E c \in DenseConfigurations(1..CfgMaxVelocity, 1..CfgMaxTimeLimit, {1}) :
             val_config = Assembled(c)
       \/ \E c \in DenseConfigurations({1}, {CfgMaxTimeLimit}, 2..CfgMaxRadius) :
             val_config = Assembled(c)
       \/ \E c \in LongConfigurations : val_config = Assembled(c)
       \/ \E grid \in EncGrids, start \in EncCells, goal \in EncCells,
             seeker \in [start_coordinates : EncCells, velocity : 1..CfgMaxVelocity],
             time_limit \in 1..CfgMaxTimeLimit :
             \E obstacles \in EncObstacleSets(grid, start) :
                 val_config = Assembled(EnclosureConfiguration(
                                  grid, start, goal, seeker, obstacles, time_limit))
    /\ val_pc = "call"
    /\ val_outcome = Idle
    /\ BFSIdle
    /\ TimeIdle
    /\ FromDictIdle
    /\ ParseIdle

\* variant: the visibility-radius check is made first
val_Call_radius_first ==
    /\ val_pc = "call"
    /\ val_outcome' =
           IF ~is_visibility_radius_within_grid_dimensions(
                   val_config.agent.visibility_radius,
                   val_config.environment.grid_dimensions)
           THEN "visibility_radius_exceeds_grid"
           ELSE validate_system_configuration(val_config)
    /\ val_pc' = "done"
    /\ UNCHANGED <<val_config, bfs_vars, ts_vars, fd_vars, parse_vars>>

\* variant: the agent's goal is also checked against the seekers' starts
val_Call_goal_seeker_check ==
    /\ val_pc = "call"
    /\ val_outcome' =
           IF /\ validate_system_configuration(val_config) = "ok"
              /\ intersects(<<val_config.agent.goal_coordinates>>,
                            [i \in 1..Len(val_config.seekers) |->
                                val_config.seekers[i].start_coordinates])
           THEN "agent_goal_on_seeker_start"
           ELSE validate_system_configuration(val_config)
    /\ val_pc' = "done"
    /\ UNCHANGED <<val_config, bfs_vars, ts_vars, fd_vars, parse_vars>>

\* variant: the search treats the seekers' start cells as blocked
val_Call_seekers_block ==
    /\ val_pc = "call"
    /\ val_outcome' =
           IF /\ validate_system_configuration(val_config) = "ok"
              /\ minimum_moves_to_reach_goal(
                     val_config.environment.grid_dimensions,
                     val_config.agent.start_coordinates,
                     val_config.agent.goal_coordinates,
                     val_config.environment.obstacles_coordinates
                         \o [i \in 1..Len(val_config.seekers) |->
                                val_config.seekers[i].start_coordinates]).is_none
           THEN "goal_unreachable"
           ELSE validate_system_configuration(val_config)
    /\ val_pc' = "done"
    /\ UNCHANGED <<val_config, bfs_vars, ts_vars, fd_vars, parse_vars>>

val_Call ==
    /\ val_pc = "call"
    /\ val_outcome' = validate_system_configuration(val_config)
    /\ val_pc' = "done"
    /\ UNCHANGED <<val_config, bfs_vars, ts_vars, fd_vars, parse_vars>>

NextValidate == val_Call

SpecValidate == InitValidate /\ [][NextValidate]_vars

(***************************************************************************)
(* The ten invariants of an assembled SystemConfiguration, stated on the   *)
(* configuration itself.                                                   *)
(***************************************************************************)
InGrid(grid, p) == p.x \in 0..(grid.width - 1) /\ p.y \in 0..(grid.height - 1)

PairwiseDistinct(list) == \A i, j \in 1..Len(list) : i # j => list[i] # list[j]

SeekerStarts(c) == [i \in 1..Len(c.seekers) |-> c.seekers[i].start_coordinates]

ObstaclesDistinct(c) == PairwiseDistinct(c.environment.obstacles_coordinates)

ObstaclesContained(c) ==
    \A i \in 1..Len(c.environment.obstacles_coordinates) :
        InGrid(c.environment.grid_dimensions, c.environment.obstacles_coordinates[i])

AgentContained(c) ==
    /\ InGrid(c.environment.grid_dimensions, c.agent.start_coordinates)
    /\ InGrid(c.environment.grid_dimensions, c.agent.goal_coordinates)

SeekersDistinct(c) == PairwiseDistinct(SeekerStarts(c))

SeekersContained(c) ==
    \A i \in 1..Len(c.seekers) :
        InGrid(c.environment.grid_dimensions, c.seekers[i].start_coordinates)

AgentStartFree(c) ==
    /\ \A i \in 1..Len(c.environment.obstacles_coordinates) :
          c.environment.obstacles_coordinates[i] # c.agent.start_coordinates
    /\ c.agent.start_coordinates # c.agent.goal_coordinates
    /\ \A i \in 1..Len(c.seekers) :
          c.seekers[i].start_coordinates # c.agent.start_coordinates

AgentGoalFree(c) ==
    \A i \in 1..Len(c.environment.obstacles_coordinates) :
        c.environment.obstacles_coordinates[i] # c.agent.goal_coordinates

SeekersOffObstacles(c) ==
    \A i \in 1..Len(c.seekers), j \in 1..Len(c.environment.obstacles_coordinates) :
        c.seekers[i].start_coordinates # c.environment.obstacles_coordinates[j]

\* some path of k moves exists with ceil(k / velocity) <= episode_time_limit,
\* that is with k <= episode_time_limit * velocity
PathWithinBudget(c) ==
    c.agent.goal_coordinates \in
        ReachWithin(c.environment.grid_dimensions, c.environment.obstacles_coordinates,
                    c.agent.start_coordinates,
                    c.environment.episode_time_limit * c.agent.velocity)

PathExists(c) ==
    ~ShortestLength(c.environment.grid_dimensions, c.environment.obstacles_coordinates,
                    c.agent.start_coordinates, c.agent.goal_coordinates).is_none

RadiusWithinGrid(c) ==
    \/ c.agent.visibility_radius <= c.environment.grid_dimensions.width
    \/ c.agent.visibility_radius <= c.environment.grid_dimensions.height

StructuralInvariants(c) ==
    /\ ObstaclesDistinct(c) /\ ObstaclesContained(c) /\ AgentContained(c)
    /\ SeekersDistinct(c) /\ SeekersContained(c) /\ AgentStartFree(c)
    /\ AgentGoalFree(c) /\ SeekersOffObstacles(c)

AllInvariants(c) == StructuralInvariants(c) /\ PathWithinBudget(c) /\ RadiusWithinGrid(c)

ValidateDone == val_pc = "done"

\* C1: validate_system_configuration raises if and only if one of the ten
\* invariants is violated, and returns normally exactly when all ten hold.
C1_RaisesIffInvariantViolated ==
    ValidateDone => ((val_outcome = "ok") <=> AllInvariants(val_config))

\* a configuration with two obstacles and two seekers that passes every
\* structural check and is rejected because no path reaches the goal
C1_Witness ==
    /\ ValidateDone
    /\ val_outcome = "goal_unreachable"
    /\ Len(val_config.environment.obstacles_coordinates) = 2
    /\ Len(val_config.seekers) = 2
    /\ StructuralInvariants(val_config)

\* the minimum required time steps: the least t with t * velocity >= the
\* length of a shortest path
LeastTimeSteps(k, velocity) ==
    CHOOSE t \in 0..k :
        /\ t * velocity >= k
        /\ \A u \in 0..k : u * velocity >= k => t <= u

MinimumRequiredTimeSteps(c) ==
    LeastTimeSteps(ShortestLength(c.environment.grid_dimensions,
                                  c.environment.obstacles_coordinates,
                                  c.agent.start_coordinates,
                                  c.agent.goal_coordinates).value,
                   c.agent.velocity)

\* C4: a configuration satisfying every other invariant is rejected with the
\* time-budget error when episode_time_limit is the minimum required time
\* steps minus one, and accepted when it equals the minimum.
C4_TimeBudgetBoundary ==
    (/\ ValidateDone
     /\ RadiusWithinGrid(val_config)
     /\ StructuralInvariants(val_config)
     /\ PathExists(val_config))
    => LET minimum == MinimumRequiredTimeSteps(val_config)
       IN  /\ val_config.environment.episode_time_limit = minimum - 1
              => val_outcome = "time_limit_insufficient"
           /\ val_config.environment.episode_time_limit = minimum
              => val_outcome = "ok"

\* three moves at velocity 2 need two time steps; a limit of one is rejected
C4_Witness ==
    /\ ValidateDone
    /\ StructuralInvariants(val_config)
    /\ RadiusWithinGrid(val_config)
    /\ val_config.agent.velocity = 2
    /\ ShortestLength(val_config.environment.grid_dimensions,
                      val_config.environment.obstacles_coordinates,
                      val_config.agent.start_coordinates,
                      val_config.agent.goal_coordinates) = Some(3)
    /\ val_config.environment.episode_time_limit = 1
    /\ val_outcome = "time_limit_insufficient"

\* C10: a configuration whose obstacle list holds the same coordinate at two
\* positions is rejected, whatever the rest of it is.
C10_DuplicateObstacleRejected ==
    (/\ ValidateDone
     /\ \E i, j \in 1..Len(val_config.environment.obstacles_coordinates) :
           /\ i # j
           /\ val_config.environment.obstacles_coordinates[i]
                  = val_config.environment.obstacles_coordinates[j])
    => val_outcome # "ok"

\* a repeated obstacle in a configuration that is otherwise sound: without the
\* repetition it passes every check
C10_Witness ==
    /\ ValidateDone
    /\ Len(val_config.environment.obstacles_coordinates) = 2
    /\ val_config.environment.obstacles_coordinates[1]
           = val_config.environment.obstacles_coordinates[2]
    /\ val_outcome = "obstacles_not_unique"
    /\ AllInvariants([val_config EXCEPT !.environment.obstacles_coordinates =
                          <<val_config.environment.obstacles_coordinates[1]>>])

\* C11: a configuration in which the agent's start coordinate is the start
\* coordinate of at least one seeker is rejected, whatever the rest of it is.
C11_AgentStartOnSeekerRejected ==
    (/\ ValidateDone
     /\ \E i \in 1..Len(val_config.seekers) :
           val_config.seekers[i].start_coordinates
               = val_config.agent.start_coordinates)
    => val_outcome # "ok"

\* the second of two seekers starts on the agent's start, and nothing else is
\* wrong: with that seeker taken away the configuration passes every check
C11_Witness ==
    /\ ValidateDone
    /\ Len(val_config.seekers) = 2
    /\ val_config.seekers[2].start_coordinates = val_config.agent.start_coordinates
    /\ val_outcome = "agent_start_on_seeker_start"
    /\ AllInvariants([val_config EXCEPT !.seekers = <<val_config.seekers[1]>>])

\* every cell of the grid next to the agent's start is an obstacle
StartEnclosed(c) ==
    \A x \in 0..(c.environment.grid_dimensions.width - 1),
       y \in 0..(c.environment.grid_dimensions.height - 1) :
        Adjacent(Coordinates(x, y), c.agent.start_coordinates)
            => \E i \in 1..Len(c.environment.obstacles_coordinates) :
                   c.environment.obstacles_coordinates[i] = Coordinates(x, y)

\* C12: a configuration in which all in-grid 8-neighbours of the agent's
\* start are obstacles is rejected, for every goal coordinate.
C12_EnclosedStartRejected ==
    (ValidateDone /\ StartEnclosed(val_config)) => val_outcome # "ok"

\* a corner start of a 3x3 grid walled in by its three neighbours, the goal
\* a free cell outside the wall: every structural check passes and the
\* search finds no path
C12_Witness ==
    /\ ValidateDone
    /\ val_config.environment.grid_dimensions = GridDimensions(3, 3)
    /\ Len(val_config.environment.obstacles_coordinates) = 3
    /\ StartEnclosed(val_config)
    /\ StructuralInvariants(val_config)
    /\ val_outcome = "goal_unreachable"

LargerDimension(grid) == IF grid.width >= grid.height THEN grid.width ELSE grid.height

SmallerDimension(grid) == IF grid.width >= grid.height THEN grid.height ELSE grid.width

\* C13: a configuration satisfying every other invariant is rejected when the
\* visibility radius is greater than the larger of grid width and height, and
\* accepted when it is at most that maximum.
C13_RadiusBound ==
    (/\ ValidateDone
     /\ StructuralInvariants(val_config)
     /\ PathWithinBudget(val_config))
    => /\ val_config.agent.visibility_radius
              > LargerDimension(val_config.environment.grid_dimensions)
          => val_outcome = "visibility_radius_exceeds_grid"
       /\ val_config.agent.visibility_radius
              <= LargerDimension(val_config.environment.grid_dimensions)
          => val_outcome = "ok"

\* a radius equal to the larger dimension and above the smaller one is accepted
C13_Witness ==
    /\ ValidateDone
    /\ val_config.agent.visibility_radius
           = LargerDimension(val_config.environment.grid_dimensions)
    /\ val_config.agent.visibility_radius
           > SmallerDimension(val_config.environment.grid_dimensions)
    /\ val_outcome = "ok"

(***************************************************************************)
(* The fourteen checks in the order of the source, each stated on the      *)
(* configuration, and the first of them a configuration violates.          *)
(***************************************************************************)
CheckOrder ==
    <<"obstacles_not_unique", "obstacles_not_in_grid", "agent_start_not_in_grid",
      "agent_goal_not_in_grid", "seekers_not_unique", "seekers_not_in_grid",
      "agent_start_on_obstacle", "agent_start_on_agent_goal",
      "agent_start_on_seeker_start", "agent_goal_on_obstacle",
      "seeker_start_on_obstacle", "goal_unreachable", "time_limit_insufficient",
      "visibility_radius_exceeds_grid">>

Violates(c, check) ==
    CASE check = "obstacles_not_unique" -> ~ObstaclesDistinct(c)
      [] check = "obstacles_not_in_grid" -> ~ObstaclesContained(c)
      [] check = "agent_start_not_in_grid" ->
             ~InGrid(c.environment.grid_dimensions, c.agent.start_coordinates)
      [] check = "agent_goal_not_in_grid" ->
             ~InGrid(c.environment.grid_dimensions, c.agent.goal_coordinates)
      [] check = "seekers_not_unique" -> ~SeekersDistinct(c)
      [] check = "seekers_not_in_grid" -> ~SeekersContained(c)
      [] check = "agent_start_on_obstacle" ->
             \E i \in 1..Len(c.environment.obstacles_coordinates) :
                 c.environment.obstacles_coordinates[i] = c.agent.start_coordinates
      [] check = "agent_start_on_agent_goal" ->
             c.agent.start_coordinates = c.agent.goal_coordinates
      [] check = "agent_start_on_seeker_start" ->
             \E i \in 1..Len(c.seekers) :
                 c.seekers[i].start_coordinates = c.agent.start_coordinates
      [] check = "agent_goal_on_obstacle" -> ~AgentGoalFree(c)
      [] check = "seeker_start_on_obstacle" -> ~SeekersOffObstacles(c)
      [] check = "goal_unreachable" -> ~PathExists(c)
      [] check = "time_limit_insufficient" -> ~PathWithinBudget(c)
      [] check = "visibility_radius_exceeds_grid" -> ~RadiusWithinGrid(c)

RECURSIVE EarliestViolatedFrom(_, _)
EarliestViolatedFrom(c, i) ==
    IF i > Len(CheckOrder)
    THEN "ok"
    ELSE IF Violates(c, CheckOrder[i])
    THEN CheckOrder[i]
    ELSE EarliestViolatedFrom(c, i + 1)

ViolatedChecks(c) == {i \in 1..Len(CheckOrder) : Violates(c, CheckOrder[i])}

\* C16: when several invariants are violated at once the error raised is that
\* of the violated check that comes earliest in the fixed order; the outcome
\* is a function of the configuration.
C16_EarliestViolatedCheckRaised ==
    ValidateDone => val_outcome = EarliestViolatedFrom(val_config, 1)

\* one seeker on the agent's start, another on an obstacle and a radius above
\* both dimensions: three violated checks, the earliest of them is reported
C16_Witness ==
    /\ ValidateDone
    /\ val_outcome = "agent_start_on_seeker_start"
    /\ ViolatedChecks(val_config) = {9, 11, 14}

\* C17: the agent's goal is not checked against the seekers' starts: a
\* configuration whose goal is a seeker's start and which satisfies every
\* other invariant is accepted.
C17_GoalOnSeekerAccepted ==
    (/\ ValidateDone
     /\ \E i \in 1..Len(val_config.seekers) :
           val_config.seekers[i].start_coordinates
               = val_config.agent.goal_coordinates
     /\ AllInvariants(val_config))
    => val_outcome = "ok"

\* two seekers, the second on the agent's goal, accepted
C17_Witness ==
    /\ ValidateDone
    /\ Len(val_config.seekers) = 2
    /\ val_config.seekers[2].start_coordinates = val_config.agent.goal_coordinates
    /\ val_outcome = "ok"

\* the seeker-related checks: uniqueness, containment, no overlap with the
\* agent's start or with an obstacle
SeekerChecksPass(c) ==
    /\ SeekersDistinct(c)
    /\ SeekersContained(c)
    /\ \A i \in 1..Len(c.seekers) :
          c.seekers[i].start_coordinates # c.agent.start_coordinates
    /\ SeekersOffObstacles(c)

\* the seeker lists a configuration is compared with: one seeker, at any
\* cell of the grid (a seeker outside the grid fails the containment check),
\* with a velocity no seeker of the families has
OtherSeekers(grid) ==
    {<<[start_coordinates |-> Coordinates(x, y), velocity |-> CfgMaxVelocity + 1]>> :
        x \in 0..(grid.width - 1), y \in 0..(grid.height - 1)}

\* C18: reachability and the verdict do not depend on the seekers.  A
\* configuration that passes the seeker-related checks has the outcome of
\* every configuration that differs from it in the seekers only and passes
\* them too (any two such configurations are both compared with the same
\* one-seeker configurations, so they agree with each other); and the search
\* reports the goal unreachable exactly when no path avoids the obstacles,
\* wherever the seekers start.
C18_SeekersDoNotAffectVerdict ==
    (ValidateDone /\ SeekerChecksPass(val_config))
    => /\ \A seekers \in OtherSeekers(val_config.environment.grid_dimensions) :
             LET other == [val_config EXCEPT !.seekers = seekers,
                                             !.num_seekers = Len(seekers)]
             IN  SeekerChecksPass(other)
                     => validate_system_configuration(other) = val_outcome
       /\ StructuralInvariants(val_config)
              => ((val_outcome = "goal_unreachable") <=> ~PathExists(val_config))

\* a corridor one cell high with the seeker between start and goal: accepted
C18_Witness ==
    /\ ValidateDone
    /\ val_config.environment.grid_dimensions = GridDimensions(3, 1)
    /\ val_config.agent.start_coordinates = Coordinates(0, 0)
    /\ val_config.agent.goal_coordinates = Coordinates(2, 0)
    /\ Len(val_config.seekers) = 1
    /\ val_config.seekers[1].start_coordinates = Coordinates(1, 0)
    /\ val_outcome = "ok"

(***************************************************************************)
(* SpecFromDict: SystemConfiguration.from_dict, one action per statement,  *)
(* on raw mappings whose agent, seekers and environment entries are well   *)
(* formed or malformed in one of the ways the checks and builders test,    *)
(* and on mappings that differ in the version and in the top-level keys.   *)
(***************************************************************************)
RawCoordinates(x, y) == PyList(<<PyInt(x), PyInt(y)>>)

ValidRawCoordinates ==
    {RawCoordinates(x, y) : x \in 0..(FdMaxDimension - 1), y \in 0..(FdMaxDimension - 1)}

\* a negative component; one component only
NegativeRawCoordinates == RawCoordinates(-1, 0)

ShortRawCoordinates == PyList(<<PyInt(0)>>)

RawAgent(s, g, v, r) ==
    PyDict([start_coordinates |-> s, goal_coordinates |-> g,
            velocity |-> v, visibility_radius |-> r])

RawAgents ==
    {RawAgent(s, g, PyInt(v), PyInt(r)) :
        s \in ValidRawCoordinates \cup {NegativeRawCoordinates},
        g \in ValidRawCoordinates \cup {ShortRawCoordinates},
        v \in 1..CfgMaxVelocity, r \in 1..CfgMaxRadius}
    \cup {PyStr,
          PyDict([start_coordinates |-> RawCoordinates(0, 0),
                  goal_coordinates |-> RawCoordinates(0, 1),
                  velocity |-> PyInt(1)]),
          PyDict([start_coordinates |-> RawCoordinates(0, 0),
                  goal_coordinates |-> RawCoordinates(0, 1),
                  velocity |-> PyInt(1), visibility_radius |-> PyInt(1),
                  name |-> PyStr]),
          RawAgent(RawCoordinates(0, 0), RawCoordinates(0, 1), PyInt(0), PyInt(1)),
          RawAgent(RawCoordinates(0, 0), RawCoordinates(0, 1), PyStr, PyInt(1)),
          RawAgent(RawCoordinates(0, 0), RawCoordinates(0, 1), PyInt(1), PyInt(0))}

RawSeekerEntries ==
    {PyDict([start_coordinates |-> c, velocity |-> PyInt(1)]) :
        c \in ValidRawCoordinates \cup {PyStr}}
    \cup {PyStr,
          PyDict([start_coordinates |-> RawCoordinates(0, 0), velocity |-> PyInt(0)])}

RawSeekers ==
    {PyList(l) : l \in UNION {[1..n -> RawSeekerEntries] : n \in 0..CfgMaxSeekers}}
    \cup {PyStr}

RawGridDimensions ==
    {PyDict([width |-> PyInt(w), height |-> PyInt(h)]) :
        w \in 1..FdMaxDimension, h \in 1..FdMaxDimension}
    \cup {PyStr,
          PyDict([width |-> PyInt(0), height |-> PyInt(1)]),
          PyDict([width |-> PyInt(1)])}

RawObstacles ==
    {PyList(l) : l \in UNION {[1..n -> ValidRawCoordinates \cup {ShortRawCoordinates}] :
                                 n \in 0..FdMaxObstacles}}
    \cup {PyStr}

RawEnvironment(g, o, t) ==
    PyDict([grid_dimensions |-> g, obstacles_coordinates |-> o, episode_time_limit |-> t])

RawEnvironments ==
    {RawEnvironment(g, o, PyInt(t)) :
        g \in RawGridDimensions, o \in RawObstacles, t \in 1..CfgMaxTimeLimit}
    \cup {PyStr,
          PyDict([grid_dimensions |-> PyDict([width |-> PyInt(1), height |-> PyInt(1)]),
                  obstacles_coordinates |-> PyList(<<>>)]),
          RawEnvironment(PyDict([width |-> PyInt(1), height |-> PyInt(1)]),
                         PyList(<<>>), PyInt(0)),
          RawEnvironment(PyDict([width |-> PyInt(1), height |-> PyInt(1)]),
                         PyList(<<>>), PyStr)}

VersionValues ==
    {PyInt(0), PyInt(1), PyInt(2), PyBool(TRUE), PyBool(FALSE), PyFloat(1), PyStr}

\* an agent, a seeker list and an environment from_dict accepts
SoundAgent == RawAgent(RawCoordinates(0, 0), RawCoordinates(1, 0), PyInt(1), PyInt(1))

SoundSeekers ==
    PyList(<<PyDict([start_coordinates |-> RawCoordinates(1, 0),
                     velocity |-> PyInt(1)])>>)

SoundEnvironment ==
    RawEnvironment(PyDict([width |-> PyInt(2), height |-> PyInt(1)]),
                   PyList(<<>>), PyInt(1))

\* entries that end from_dict at each kind of place: accepted, refused by a
\* shallow check, by a builder, by the validator
VariantAgents ==
    {SoundAgent, PyStr,
     RawAgent(NegativeRawCoordinates, RawCoordinates(1, 0), PyInt(1), PyInt(1)),
     RawAgent(RawCoordinates(0, 0), RawCoordinates(0, 0), PyInt(1), PyInt(1))}

VariantSeekers ==
    {SoundSeekers, PyStr,
     PyList(<<PyDict([start_coordinates |-> RawCoordinates(1, 0), velocity |-> PyInt(1)]),
              PyDict([start_coordinates |-> PyStr, velocity |-> PyInt(1)])>>)}

VariantEnvironments ==
    {SoundEnvironment, PyStr,
     RawEnvironment(PyDict([width |-> PyInt(2), height |-> PyInt(1)]),
                    PyList(<<ShortRawCoordinates>>), PyInt(1))}

\* the top-level key sets from_dict can index: the three entries it reads,
\* with or without a version, with or without a key of no meaning
VariantKeys ==
    {{"agent", "seekers", "environment"} \cup extra : extra \in SUBSET {"version", "name"}}

RawSystemMapping(keys, version, agent, seekers, environment) ==
    [k \in keys |->
        CASE k = "version" -> version
          [] k = "agent" -> agent
          [] k = "seekers" -> seekers
          [] k = "environment" -> environment
          [] k = "name" -> PyStr]

\* mappings from_dict can accept whose seeker and obstacle lists have up to
\* LstMaxLength entries, the seekers with different velocities
ListedCoordinates ==
    {RawCoordinates(x, y) : x \in 0..(LstMaxWidth - 1), y \in 0..(LstMaxHeight - 1)}

ListedSeekerEntries ==
    {PyDict([start_coordinates |-> c, velocity |-> PyInt(v)]) :
        c \in ListedCoordinates, v \in 1..LstMaxVelocity}

ListedSeekers ==
    {PyList(l) : l \in UNION {[1..n -> ListedSeekerEntries] : n \in 1..LstMaxLength}}

ListedObstacles ==
    {PyList(l) : l \in UNION {[1..n -> ListedCoordinates] : n \in 0..LstMaxLength}}

ListedAgent ==
    RawAgent(RawCoordinates(0, 0), RawCoordinates(LstMaxWidth - 1, LstMaxHeight - 1),
             PyInt(1), PyInt(1))

ListedEnvironment(obstacles) ==
    RawEnvironment(PyDict([width |-> PyInt(LstMaxWidth), height |-> PyInt(LstMaxHeight)]),
                   obstacles, PyInt(LstMaxWidth * LstMaxHeight))

InitFromDict ==
    /\ \/ \E a \in RawAgents, k \in RawSeekers, e \in RawEnvironments :
             fd_input = [version |-> PyInt(1), agent |-> a, seekers |-> k,
                         environment |-> e]
       \/ \E keys \in VariantKeys, version \in VersionValues, a \in VariantAgents,
             k \in VariantSeekers, e \in VariantEnvironments :
             fd_input = RawSystemMapping(keys, version, a, k, e)
       \/ \E k \in ListedSeekers, o \in ListedObstacles :
             fd_input = [version |-> PyInt(1), agent |-> ListedAgent, seekers |-> k,
                         environment |-> ListedEnvironment(o)]
    /\ fd_pc = "check_agent"
    /\ fd_trace = <<>>
    /\ fd_agent = Idle
    /\ fd_seekers = Idle
    /\ fd_environment = Idle
    /\ fd_object = Idle
    /\ fd_validated = Idle
    /\ fd_returned = NoObject
    /\ fd_error = Idle
    /\ fd_echo = Idle
    /\ BFSIdle
    /\ TimeIdle
    /\ ValidateIdle
    /\ ParseIdle

\* raise ValueError(f"...: {echoed}"): from_dict ends and hands nothing to
\* the caller
fd_Raise(error, echoed) ==
    /\ fd_pc' = "raised"
    /\ fd_error' = error
    /\ fd_echo' = echoed

\* a from_dict that checks the whole mapping, version and key set included,
\* before the agent entry
fd_CheckAgent_checks_system ==
    /\ fd_pc = "check_agent"
    /\ fd_trace' = Append(fd_trace, "is_agent_config_shallowly_valid")
    /\ IF \/ ~is_system_config_shallowly_valid(PyDict(fd_input))
          \/ ~is_agent_config_shallowly_valid(fd_input["agent"])
       THEN fd_Raise("agent_configuration_invalid", [system_config |-> fd_input])
       ELSE fd_pc' = "check_seekers" /\ UNCHANGED <<fd_error, fd_echo>>
    /\ UNCHANGED <<fd_input, fd_agent, fd_seekers, fd_environment, fd_object,
                   fd_validated, fd_returned, bfs_vars, ts_vars, val_vars, parse_vars>>

\* lines 119-120
fd_CheckAgent ==
    /\ fd_pc = "check_agent"
    /\ fd_trace' = Append(fd_trace, "is_agent_config_shallowly_valid")
    /\ IF ~is_agent_config_shallowly_valid(fd_input["agent"])
       THEN fd_Raise("agent_configuration_invalid", [system_config |-> fd_input])
       ELSE fd_pc' = "check_seekers" /\ UNCHANGED <<fd_error, fd_echo>>
    /\ UNCHANGED <<fd_input, fd_agent, fd_seekers, fd_environment, fd_object,
                   fd_validated, fd_returned, bfs_vars, ts_vars, val_vars, parse_vars>>

\* lines 122-123
fd_CheckSeekers ==
    /\ fd_pc = "check_seekers"
    /\ fd_trace' = Append(fd_trace, "is_seekers_config_shallowly_valid")
    /\ IF ~is_seekers_config_shallowly_valid(fd_input["seekers"])
       THEN fd_Raise("seekers_configuration_invalid", [system_config |-> fd_input])
       ELSE fd_pc' = "check_environment" /\ UNCHANGED <<fd_error, fd_echo>>
    /\ UNCHANGED <<fd_input, fd_agent, fd_seekers, fd_environment, fd_object,
                   fd_validated, fd_returned, bfs_vars, ts_vars, val_vars, parse_vars>>

\* lines 125-126
fd_CheckEnvironment ==
    /\ fd_pc = "check_environment"
    /\ fd_trace' = Append(fd_trace, "is_environment_config_shallowly_valid")
    /\ IF ~is_environment_config_shallowly_valid(fd_input["environment"])
       THEN fd_Raise("environment_configuration_invalid", [system_config |-> fd_input])
       ELSE fd_pc' = "build_agent" /\ UNCHANGED <<fd_error, fd_echo>>
    /\ UNCHANGED <<fd_input, fd_agent, fd_seekers, fd_environment, fd_object,
                   fd_validated, fd_returned, bfs_vars, ts_vars, val_vars, parse_vars>>

\* line 129
fd_BuildAgent ==
    /\ fd_pc = "build_agent"
    /\ fd_trace' = Append(fd_trace, "AgentConfiguration.from_dict")
    /\ LET built == AgentConfiguration_from_dict(fd_input["agent"])
       IN  IF built.raised
           THEN /\ fd_Raise(built.value, [agent_config |-> fd_input["agent"]])
                /\ UNCHANGED fd_agent
           ELSE fd_agent' = built.value /\ fd_pc' = "build_seekers" /\ UNCHANGED <<fd_error, fd_echo>>
    /\ UNCHANGED <<fd_input, fd_seekers, fd_environment, fd_object,
                   fd_validated, fd_returned, bfs_vars, ts_vars, val_vars, parse_vars>>

\* line 130
fd_BuildSeekers ==
    /\ fd_pc = "build_seekers"
    /\ fd_trace' = Append(fd_trace, "SeekerConfiguration.from_dict")
    /\ LET built == SeekerConfigurations_from_list(fd_input["seekers"])
       IN  IF built.raised
           THEN /\ fd_Raise(built.value,
                            [seeker_config |->
                                first_raising_seeker_config(fd_input["seekers"])])
                /\ UNCHANGED fd_seekers
           ELSE /\ fd_seekers' = built.value
                /\ fd_pc' = "build_environment"
                /\ UNCHANGED <<fd_error, fd_echo>>
    /\ UNCHANGED <<fd_input, fd_agent, fd_environment, fd_object,
                   fd_validated, fd_returned, bfs_vars, ts_vars, val_vars, parse_vars>>

\* line 131
fd_BuildEnvironment ==
    /\ fd_pc = "build_environment"
    /\ fd_trace' = Append(fd_trace, "EnvironmentConfiguration.from_dict")
    /\ LET built == EnvironmentConfiguration_from_dict(fd_input["environment"])
       IN  IF built.raised
           THEN /\ fd_Raise(built.value,
                            [environment_config |-> fd_input["environment"]])
                /\ UNCHANGED fd_environment
           ELSE /\ fd_environment' = built.value
                /\ fd_pc' = "assemble"
                /\ UNCHANGED <<fd_error, fd_echo>>
    /\ UNCHANGED <<fd_input, fd_agent, fd_seekers, fd_object,
                   fd_validated, fd_returned, bfs_vars, ts_vars, val_vars, parse_vars>>

\* lines 128-133: num_seekers = len(system_config["seekers"]), then the
\* SystemConfiguration is constructed
fd_Assemble ==
    /\ fd_pc = "assemble"
    /\ fd_object' = [agent |-> fd_agent, seekers |-> fd_seekers,
                     environment |-> fd_environment,
                     num_seekers |-> Len(fd_input["seekers"].items)]
    /\ fd_pc' = "validate"
    /\ UNCHANGED <<fd_input, fd_trace, fd_agent, fd_seekers, fd_environment,
                   fd_validated, fd_returned, fd_error, fd_echo,
                   bfs_vars, ts_vars, val_vars, parse_vars>>

\* a validator call whose error is swallowed
fd_Validate_unchecked ==
    /\ fd_pc = "validate"
    /\ fd_trace' = Append(fd_trace, "validate_system_configuration")
    /\ fd_validated' = [object |-> fd_object,
                        outcome |-> validate_system_configuration(fd_object)]
    /\ fd_pc' = "return"
    /\ UNCHANGED <<fd_input, fd_agent, fd_seekers, fd_environment, fd_object,
                   fd_returned, fd_error, fd_echo,
                   bfs_vars, ts_vars, val_vars, parse_vars>>

\* line 134
fd_Validate ==
    /\ fd_pc = "validate"
    /\ fd_trace' = Append(fd_trace, "validate_system_configuration")
    /\ LET outcome == validate_system_configuration(fd_object)
       IN  /\ fd_validated' = [object |-> fd_object, outcome |-> outcome]
           /\ IF outcome # "ok"
              THEN fd_Raise(outcome, validate_system_configuration_echo(fd_object, outcome))
              ELSE fd_pc' = "return" /\ UNCHANGED <<fd_error, fd_echo>>
    /\ UNCHANGED <<fd_input, fd_agent, fd_seekers, fd_environment, fd_object,
                   fd_returned, bfs_vars, ts_vars, val_vars, parse_vars>>

\* line 136
fd_Return ==
    /\ fd_pc = "return"
    /\ fd_returned' = fd_object
    /\ fd_pc' = "returned"
    /\ UNCHANGED <<fd_input, fd_trace, fd_agent, fd_seekers, fd_environment, fd_object,
                   fd_validated, fd_error, fd_echo,
                   bfs_vars, ts_vars, val_vars, parse_vars>>

NextFromDict ==
    \/ fd_CheckAgent
    \/ fd_CheckSeekers
    \/ fd_CheckEnvironment
    \/ fd_BuildAgent
    \/ fd_BuildSeekers
    \/ fd_BuildEnvironment
    \/ fd_Assemble
    \/ fd_Validate
    \/ fd_Return

SpecFromDict == InitFromDict /\ [][NextFromDict]_vars

\* the stages of from_dict in the order of the source
FromDictStages ==
    <<"is_agent_config_shallowly_valid", "is_seekers_config_shallowly_valid",
      "is_environment_config_shallowly_valid", "AgentConfiguration.from_dict",
      "SeekerConfiguration.from_dict", "EnvironmentConfiguration.from_dict",
      "validate_system_configuration">>

IsPrefix(p, q) == Len(p) <= Len(q) /\ \A k \in 1..Len(p) : p[k] = q[k]

\* C3: the three shallow checks run before any builder, the builders before
\* the validator, the validator once and on the assembled object; the object
\* is handed to the caller only after the validator accepted it, and a raise
\* at any stage hands nothing to the caller.
C3_ValidatedBeforeReturned ==
    /\ IsPrefix(fd_trace, FromDictStages)
    /\ fd_returned # NoObject =>
          /\ fd_pc = "returned"
          /\ fd_trace = FromDictStages
          /\ fd_validated = [object |-> fd_returned, outcome |-> "ok"]
          /\ fd_returned.agent = fd_agent
          /\ fd_returned.seekers = fd_seekers
          /\ fd_returned.environment = fd_environment
    /\ fd_pc = "returned" => fd_returned # NoObject
    /\ fd_pc = "raised" => (fd_returned = NoObject /\ fd_error # Idle)

\* a mapping with an obstacle and two seekers went through every stage and
\* its configuration was returned
C3_Witness ==
    /\ fd_pc = "returned"
    /\ fd_trace = FromDictStages
    /\ Len(fd_returned.seekers) = 2
    /\ Len(fd_returned.environment.obstacles_coordinates) = 1

\* the supplied value of a coordinate list, component by component
SuppliedCoordinates(object, data) ==
    /\ object.x = data.items[1].val
    /\ object.y = data.items[2].val

FromDictReturned == fd_pc = "returned"

\* C14: the object from_dict returns carries exactly the supplied values:
\* the agent's start and goal, velocity and visibility radius, each seeker's
\* start and velocity in list order, grid width and height, the obstacles in
\* list order and the episode time limit; num_seekers is the length of the
\* returned seeker list.
C14_RoundTrip ==
    FromDictReturned =>
        LET agent == fd_input["agent"].items
            seekers == fd_input["seekers"].items
            environment == fd_input["environment"].items
        IN  /\ SuppliedCoordinates(fd_returned.agent.start_coordinates,
                                   agent["start_coordinates"])
            /\ SuppliedCoordinates(fd_returned.agent.goal_coordinates,
                                   agent["goal_coordinates"])
            /\ fd_returned.agent.velocity = agent["velocity"].val
            /\ fd_returned.agent.visibility_radius = agent["visibility_radius"].val
            /\ Len(fd_returned.seekers) = Len(seekers)
            /\ \A k \in 1..Len(seekers) :
                  /\ SuppliedCoordinates(fd_returned.seekers[k].start_coordinates,
                                         seekers[k].items["start_coordinates"])
                  /\ fd_returned.seekers[k].velocity = seekers[k].items["velocity"].val
            /\ fd_returned.environment.grid_dimensions.width
                   = environment["grid_dimensions"].items["width"].val
            /\ fd_returned.environment.grid_dimensions.height
                   = environment["grid_dimensions"].items["height"].val
            /\ Len(fd_returned.environment.obstacles_coordinates)
                   = Len(environment["obstacles_coordinates"].items)
            /\ \A k \in 1..Len(environment["obstacles_coordinates"].items) :
                  SuppliedCoordinates(fd_returned.environment.obstacles_coordinates[k],
                                      environment["obstacles_coordinates"].items[k])
            /\ fd_returned.environment.episode_time_limit
                   = environment["episode_time_limit"].val
            /\ fd_returned.num_seekers = Len(fd_returned.seekers)

\* an accepted mapping whose lists are in no sorted order: two obstacles,
\* (2, 0) before (0, 1), and two seekers, the first at (1, 1) with velocity 2,
\* the second at (1, 0) with velocity 1; the object returned lists them so
C14_Witness ==
    /\ FromDictReturned
    /\ fd_input["environment"].items["obstacles_coordinates"].items
           = <<RawCoordinates(2, 0), RawCoordinates(0, 1)>>
    /\ fd_input["seekers"].items
           = <<PyDict([start_coordinates |-> RawCoordinates(1, 1), velocity |-> PyInt(2)]),
               PyDict([start_coordinates |-> RawCoordinates(1, 0), velocity |-> PyInt(1)])>>
    /\ fd_returned.environment.obstacles_coordinates
           = <<Coordinates(2, 0), Coordinates(0, 1)>>
    /\ fd_returned.seekers
           = <<[start_coordinates |-> Coordinates(1, 1), velocity |-> 2],
               [start_coordinates |-> Coordinates(1, 0), velocity |-> 1]>>
    /\ fd_returned.num_seekers = 2

\* how a call of from_dict ended: a returned object, or an error and the
\* value its message echoes
FromDictReturns(object) ==
    [pc |-> "returned", returned |-> object, error |-> Idle, echo |-> [nothing |-> TRUE]]

FromDictRaises(error, echoed) ==
    [pc |-> "raised", returned |-> NoObject, error |-> error, echo |-> echoed]

\* what from_dict does with a mapping, statement by statement, as one value
SystemConfiguration_from_dict(system_config) ==
    LET agent == AgentConfiguration_from_dict(system_config["agent"])
        seekers == SeekerConfigurations_from_list(system_config["seekers"])
        environment == EnvironmentConfiguration_from_dict(system_config["environment"])
        system_configuration ==
            [agent |-> agent.value, seekers |-> seekers.value,
             environment |-> environment.value,
             num_seekers |-> Len(system_config["seekers"].items)]
        outcome == validate_system_configuration(system_configuration)
    IN  IF ~is_agent_config_shallowly_valid(system_config["agent"])
        THEN FromDictRaises("agent_configuration_invalid",
                            [system_config |-> system_config])
        ELSE IF ~is_seekers_config_shallowly_valid(system_config["seekers"])
        THEN FromDictRaises("seekers_configuration_invalid",
                            [system_config |-> system_config])
        ELSE IF ~is_environment_config_shallowly_valid(system_config["environment"])
        THEN FromDictRaises("environment_configuration_invalid",
                            [system_config |-> system_config])
        ELSE IF agent.raised
        THEN FromDictRaises(agent.value, [agent_config |-> system_config["agent"]])
        ELSE IF seekers.raised
        THEN FromDictRaises(seekers.value,
                            [seeker_config |->
                                first_raising_seeker_config(system_config["seekers"])])
        ELSE IF environment.raised
        THEN FromDictRaises(environment.value,
                            [environment_config |-> system_config["environment"]])
        ELSE IF outcome # "ok"
        THEN FromDictRaises(outcome,
                            validate_system_configuration_echo(system_configuration,
                                                               outcome))
        ELSE FromDictReturns(system_configuration)

FromDictEnded == fd_pc \in {"returned", "raised"}

\* the errors from_dict raises itself, lines 120, 123 and 126
OwnErrors ==
    {"agent_configuration_invalid", "seekers_configuration_invalid",
     "environment_configuration_invalid"}

\* the mapping parse_config_file hands over that has the agent, seekers and
\* environment entries of a given one: version 1 and no other key
SpecifiedMappingOf(system_config) ==
    RawSystemMapping({"version", "agent", "seekers", "environment"}, PyInt(1),
                     system_config["agent"], system_config["seekers"],
                     system_config["environment"])

\* the call that ended gave what the call on another mapping gives: the same
\* object, or the same error
SameResult(other) ==
    /\ other.pc = fd_pc
    /\ other.returned = fd_returned
    /\ other.error = fd_error

\* the errors echo the same value
SameEcho(other) == fd_pc = "raised" => other.echo = fd_echo

\* C21 as stated: from_dict gives the same result, the same returned
\* configuration or the same error, on two mappings with the same agent,
\* seekers and environment entries, whatever the version and the extra keys:
\* every call ends as the call on the version 1, four key mapping with its
\* entries ends.
C21_Original ==
    FromDictEnded =>
        LET other == SystemConfiguration_from_dict(SpecifiedMappingOf(fd_input))
        IN  SameResult(other) /\ SameEcho(other)

\* C21, amended: on two mappings with the same agent, seekers and
\* environment entries from_dict returns the same configuration or raises at
\* the same statement (every call ends as the call on the version 1, four
\* key mapping with its entries ends); the value the error echoes is the same
\* too, except for the three errors from_dict raises itself, which echo the
\* whole mapping it was given, version and extra keys included.
C21_SameEntriesSameResult ==
    FromDictEnded =>
        LET other == SystemConfiguration_from_dict(SpecifiedMappingOf(fd_input))
        IN  /\ SameResult(other)
            /\ fd_error \notin OwnErrors => SameEcho(other)
            /\ fd_error \in OwnErrors => fd_echo = [system_config |-> fd_input]

\* a mapping with version 2 and a key of no meaning, and the configuration
\* of its three entries returned
C21_Witness ==
    /\ fd_pc = "returned"
    /\ DOMAIN fd_input = {"version", "agent", "seekers", "environment", "name"}
    /\ fd_input["version"] = PyInt(2)
    /\ fd_returned.agent.goal_coordinates = Coordinates(1, 0)

(***************************************************************************)
(* SpecParse: SystemConfiguration.parse_config_file, one action per        *)
(* statement; the call of from_dict runs the actions of SpecFromDict.      *)
(* A file is a path (is it a file, its suffix) and what yaml.safe_load      *)
(* makes of its text: a value, or a YAMLError.                             *)
(***************************************************************************)
YamlError == [type |-> "yaml_error"]

TopLevelKeys == {"version", "agent", "seekers", "environment", "name"}

RawSystem(keys, version, agent) ==
    PyDict([k \in keys |->
               CASE k = "version" -> version
                 [] k = "agent" -> agent
                 [] k = "seekers" -> SoundSeekers
                 [] k = "environment" -> SoundEnvironment
                 [] k = "name" -> PyStr])

LoadedValues ==
    {RawSystem(keys, version, agent) :
        keys \in SUBSET TopLevelKeys, version \in VersionValues,
        agent \in {SoundAgent, PyStr}}
    \cup {PyStr, PyNone, PyInt(1), PyList(<<>>), YamlError}

ConfigFiles ==
    [is_file : BOOLEAN, suffix : {".yaml", ".yml"}, contents : LoadedValues]

InitParse ==
    /\ parse_file \in ConfigFiles
    /\ parse_pc = "check_file"
    /\ parse_data = Idle
    /\ parse_shallowly_valid = NotChecked
    /\ parse_result = NoObject
    /\ parse_error = Idle
    /\ BFSIdle
    /\ TimeIdle
    /\ ValidateIdle
    /\ FromDictIdle

\* lines 146-147
parse_CheckFile ==
    /\ parse_pc = "check_file"
    /\ IF ~is_yaml_file(parse_file)
       THEN parse_pc' = "raised" /\ parse_error' = "not_a_yaml_file"
       ELSE parse_pc' = "load" /\ UNCHANGED parse_error
    /\ UNCHANGED <<parse_file, parse_data, parse_shallowly_valid, parse_result,
                   bfs_vars, ts_vars, val_vars, fd_vars>>

\* line 149, load_yaml_file: the loaded value, or exit(1) on a YAMLError
parse_Load ==
    /\ parse_pc = "load"
    /\ IF parse_file.contents = YamlError
       THEN parse_pc' = "exited" /\ UNCHANGED parse_data
       ELSE parse_pc' = "check_system" /\ parse_data' = parse_file.contents
    /\ UNCHANGED <<parse_file, parse_shallowly_valid, parse_result, parse_error,
                   bfs_vars, ts_vars, val_vars, fd_vars>>

\* lines 151-152
parse_CheckSystem ==
    /\ parse_pc = "check_system"
    /\ parse_shallowly_valid' = Checked(is_system_config_shallowly_valid(parse_data))
    /\ IF ~is_system_config_shallowly_valid(parse_data)
       THEN parse_pc' = "raised" /\ parse_error' = "not_a_valid_system_configuration"
       ELSE parse_pc' = "from_dict" /\ UNCHANGED parse_error
    /\ UNCHANGED <<parse_file, parse_data, parse_result,
                   bfs_vars, ts_vars, val_vars, fd_vars>>

\* line 154: SystemConfiguration.from_dict(data) is entered
parse_CallFromDict ==
    /\ parse_pc = "from_dict"
    /\ fd_pc = Idle
    /\ fd_input' = parse_data.items
    /\ fd_pc' = "check_agent"
    /\ UNCHANGED <<fd_trace, fd_agent, fd_seekers, fd_environment, fd_object,
                   fd_validated, fd_returned, fd_error, fd_echo,
                   bfs_vars, ts_vars, val_vars, parse_vars>>

\* line 154: what from_dict returned is returned
parse_Return ==
    /\ parse_pc = "from_dict"
    /\ fd_pc = "returned"
    /\ parse_result' = fd_returned
    /\ parse_pc' = "returned"
    /\ UNCHANGED <<parse_file, parse_data, parse_shallowly_valid, parse_error,
                   bfs_vars, ts_vars, val_vars, fd_vars>>

\* line 154: an error raised in from_dict passes through
parse_Propagate ==
    /\ parse_pc = "from_dict"
    /\ fd_pc = "raised"
    /\ parse_pc' = "raised"
    /\ parse_error' = fd_error
    /\ UNCHANGED <<parse_file, parse_data, parse_shallowly_valid, parse_result,
                   bfs_vars, ts_vars, val_vars, fd_vars>>

NextParse ==
    \/ parse_CheckFile
    \/ parse_Load
    \/ parse_CheckSystem
    \/ parse_CallFromDict
    \/ parse_Return
    \/ parse_Propagate
    \/ NextFromDict

SpecParse == InitParse /\ [][NextParse]_vars

\* a mapping with exactly the four keys whose version is the integer 1
SpecifiedSystemMapping(data) ==
    /\ data.type = "dict"
    /\ \A k \in {"version", "agent", "seekers", "environment"} : k \in DOMAIN data.items
    /\ \A k \in DOMAIN data.items : k \in {"version", "agent", "seekers", "environment"}
    /\ data.items["version"].type = "int"
    /\ data.items["version"].val = 1

SystemChecked == parse_shallowly_valid.checked

NothingBuilt ==
    /\ fd_pc = Idle
    /\ fd_trace = <<>>
    /\ parse_result = NoObject

RaisedOnSystemCheck ==
    /\ parse_pc = "raised"
    /\ parse_error = "not_a_valid_system_configuration"
    /\ NothingBuilt

\* C15: is_system_config_shallowly_valid returns true if and only if the data
\* is a mapping whose key set is exactly {version, agent, seekers,
\* environment} and whose version is an integer equal to 1; when it returns
\* false, parse_config_file raises without building any object.
C15_Original ==
    SystemChecked =>
        /\ parse_shallowly_valid.answer <=> SpecifiedSystemMapping(parse_data)
        /\ ~parse_shallowly_valid.answer => RaisedOnSystemCheck

\* what the code accepts: the four keys with version 1 or version True
AcceptedSystemMapping(data) ==
    /\ data.type = "dict"
    /\ DOMAIN data.items = {"version", "agent", "seekers", "environment"}
    /\ data.items["version"] \in {PyInt(1), PyBool(TRUE)}

C15_VersionOneOrTrue ==
    SystemChecked =>
        /\ parse_shallowly_valid.answer <=> AcceptedSystemMapping(parse_data)
        /\ ~parse_shallowly_valid.answer => RaisedOnSystemCheck

\* the four keys with version: true, taken for a valid system configuration
\* and built into an object
C15_TrueVersionAccepted ==
    /\ parse_pc = "returned"
    /\ parse_data.items["version"] = PyBool(TRUE)
    /\ parse_result # NoObject

====
